---- MODULE Spec2Model ----
(***************************************************************************)
(* ApiBridgePro: the request pipeline of Gateway.proxy and the state it    *)
(* shares between requests: the health registry with its circuit breakers, *)
(* the token buckets, the response cache and the budget ledger.            *)
(*                                                                         *)
(* One request is a coroutine.  Its steps are the stretches of code        *)
(* between two suspension points (await request.body(), await              *)
(* client.request(...)); everything between two awaits runs without        *)
(* interleaving on the event loop and is one action here.                  *)
(***************************************************************************)
EXTENDS Integers, Sequences, FiniteSets, TLC

(***************************************************************************)
(* Bounds of the model.                                                    *)
(***************************************************************************)
\* number of request coroutines that may be in flight at once
NumSlots == 2
\* the clock stops advancing here (seconds)
MaxTime == 120
\* seconds that pass in one step of the clock
TickStep == 60
\* rate_limit.capacity of the modelled connector is 1 .. RateCapacity
\* (refill_per_sec is 0)
RateCapacity == 2
\* rate_limit.allow is called up to capacity + MaxRejected times
MaxRejected == 1
\* cache_ttl_seconds of the modelled connector
CacheTtl == 30
\* strategy.retries of the modelled connector
Retries == 1
\* cost_per_call_usd and budget.monthly_usd_max of the modelled connector, in cents
CostPerCall == 1
BudgetMax == 2
\* CircuitBreaker(failure_threshold = 1 .. MaxThreshold) in the breaker unit model
MaxThreshold == 3
\* failures a breaker counts in the unit models
MaxCalls == 6
\* calls made in the unit models that count their calls
MaxOps == 6
\* TokenBucket(capacity = 1 .. MaxBucket) in the bucket unit model
MaxBucket == 3
\* the clock of the bucket unit model stops here (seconds)
BucketHorizon == 4
\* rate_limit.capacity of the connector in the failover model
OpenCapacity == 6
\* months 0 .. MaxMonth can be named in a call of the budget ledger
MaxMonth == 1
\* add_cost calls in the ledger unit model
MaxCharges == 4
\* rate_limit.capacity of the connector in the budget model
BudgetCapacity == 2
\* rate_limit.capacity of the connector in the model of a cache that outlives
\* the recovery timeout
ProbeCapacity == 8
\* rate_limit.capacity of the connector in the model of requests that keep
\* arriving; its refill_per_sec is 1
RecoverCapacity == 1
\* coroutines of allow_async, called up to MaxAllowCalls times in all
NumLimiters == 2
MaxAllowCalls == 3
\* seconds the clock of the limiter model runs
MaxLimiterTime == 2
\* invalidate_token is called up to MaxInvalidations times for each key
MaxInvalidations == 1
\* callers of get_token in the token model
NumCallers == 3
\* pieces a path is put together from in the path model
MaxAtoms == 5
\* mark_success is called up to MaxSuccesses times in the pick_best unit model
MaxSuccesses == 2
\* rate_limit.capacity of the connector in the model with two methods
MethodCapacity == 3
\* strategy.retries is 0 .. MaxRetries in the retry model, and the connector
\* admits RetryCapacity requests
MaxRetries == 2
RetryCapacity == 2

(***************************************************************************)
(* Program constants.                                                      *)
(***************************************************************************)
\* CircuitBreaker.__init__ defaults
DefaultFailureThreshold == 5
DefaultRecoveryTimeout == 60
\* pick_best: circuit_penalty
PenaltyOpen == 100000
PenaltyHalfOpen == 50000
\* avg of an entry created by mark_failure, and of a provider without entry
UnknownLatency == 9999
\* oauth2_manager.py: seconds before expires_at from which a token is not
\* used any more, and expires_in when the token endpoint names none
TokenBuffer == 60
DefaultExpiresIn == 3600

(***************************************************************************)
(* CircuitBreaker (health.py).  last_success_time is written and never     *)
(* read, and is left out.                                                  *)
(***************************************************************************)
CircuitBreaker(failure_threshold, recovery_timeout) ==
    [failure_count |-> 0,
     failure_threshold |-> failure_threshold,
     recovery_timeout |-> recovery_timeout,
     state |-> "CLOSED",
     last_failure_time |-> 0]

\* should_attempt that starts the test from any state once the timeout is over
should_attempt_state_any(cb, t) ==
    IF t - cb.last_failure_time > cb.recovery_timeout
    THEN [cb EXCEPT !.state = "HALF_OPEN"]
    ELSE cb

\* the state should_attempt leaves the breaker in, called at time t
should_attempt_state(cb, t) ==
    IF cb.state = "OPEN" /\ t - cb.last_failure_time > cb.recovery_timeout
    THEN [cb EXCEPT !.state = "HALF_OPEN"]
    ELSE cb

\* should_attempt with the timeout compared by >= instead of >
should_attempt_early(cb, t) ==
    IF cb.state = "CLOSED" THEN TRUE
    ELSE IF cb.state = "OPEN"
         THEN t - cb.last_failure_time >= cb.recovery_timeout
         ELSE TRUE

\* the value should_attempt returns, called at time t
should_attempt(cb, t) ==
    IF cb.state = "CLOSED" THEN TRUE
    ELSE IF cb.state = "OPEN"
         THEN t - cb.last_failure_time > cb.recovery_timeout
         ELSE TRUE

\* record_success that resets the counter and leaves the state
record_success_keeps_state(cb) ==
    [cb EXCEPT !.failure_count = 0]

record_success(cb) ==
    [cb EXCEPT !.failure_count = 0, !.state = "CLOSED"]

\* record_failure that opens with > instead of >=
record_failure_late(cb, t) ==
    LET n == cb.failure_count + 1
    IN [cb EXCEPT !.failure_count = n,
                  !.last_failure_time = t,
                  !.state = IF n > cb.failure_threshold THEN "OPEN" ELSE @]

\* record_failure that leaves last_failure_time of a breaker that is not CLOSED
record_failure_keeps_time(cb, t) ==
    LET n == cb.failure_count + 1
    IN [cb EXCEPT !.failure_count = n,
                  !.last_failure_time = IF cb.state = "CLOSED" THEN t ELSE @,
                  !.state = IF n >= cb.failure_threshold THEN "OPEN" ELSE @]

record_failure(cb, t) ==
    LET n == cb.failure_count + 1
    IN [cb EXCEPT !.failure_count = n,
                  !.last_failure_time = t,
                  !.state = IF n >= cb.failure_threshold THEN "OPEN" ELSE @]

(***************************************************************************)
(* Health registry (health.py).  An entry's "ts" is written and never      *)
(* read, and is left out.  _health is a dict: a key without an entry has   *)
(* present = FALSE.                                                        *)
(***************************************************************************)
\* latencies (ms) an upstream call is measured with
Latencies == {100}

NoHealth ==
    [present |-> FALSE, healthy |-> TRUE, avg |-> 0,
     cb |-> CircuitBreaker(DefaultFailureThreshold, DefaultRecoveryTimeout)]

\* 0.7 * old + 0.3 * latency is evaluated in IEEE-754 doubles: for these
\* arguments the sum is an integer in exact arithmetic and the double just
\* below it, so int() yields one less (enumerated for the model's latencies).
EmaFloatShort(old, latency) ==
    \/ /\ latency = 100
       /\ old % 10 = 0
       /\ \/ old \in 650..680
          \/ old \in 1290..1420
          \/ old \in 2570..2880
          \/ old \in 5130..5800
    \/ /\ latency = 3
       /\ old % 10 = 3
       /\ \/ old = 3
          \/ old \in 23..83
          \/ old \in 373..723
          \/ old \in 773..1453
          \/ old \in 5853..9993
    \/ /\ latency = 102
       /\ old % 10 = 2
       /\ \/ old = 2
          \/ old \in 92..132
          \/ old \in 192..322
          \/ old \in 1472..2882
          \/ old \in 3072..5802

\* the moving average rounded to the nearest integer instead of truncated
EmaRounded(old, latency) == (7 * old + 3 * latency + 5) \div 10

\* int(0.7 * h["avg"] + 0.3 * latency_ms)
Ema(old, latency) ==
    ((7 * old + 3 * latency) \div 10) - (IF EmaFloatShort(old, latency) THEN 1 ELSE 0)

mark_success(h, pkey, latency_ms) ==
    LET e == IF h[pkey].present THEN h[pkey]
             ELSE [NoHealth EXCEPT !.present = TRUE, !.healthy = TRUE, !.avg = latency_ms]
    IN [h EXCEPT ![pkey] = [e EXCEPT !.avg = Ema(e.avg, latency_ms),
                                     !.healthy = TRUE,
                                     !.cb = record_success(e.cb)]]

\* mark_failure that leaves the healthy flag of an entry it finds
mark_failure_keeps_flag(h, pkey, t) ==
    LET e == IF h[pkey].present THEN h[pkey]
             ELSE [NoHealth EXCEPT !.present = TRUE, !.healthy = FALSE, !.avg = UnknownLatency]
    IN [h EXCEPT ![pkey] = [e EXCEPT !.cb = record_failure(e.cb, t)]]

mark_failure(h, pkey, t) ==
    LET e == IF h[pkey].present THEN h[pkey]
             ELSE [NoHealth EXCEPT !.present = TRUE, !.healthy = FALSE, !.avg = UnknownLatency]
    IN [h EXCEPT ![pkey] = [e EXCEPT !.healthy = FALSE,
                                     !.cb = record_failure(e.cb, t)]]

\* the value should_attempt_provider returns
should_attempt_provider(h, pkey, t) ==
    IF ~h[pkey].present THEN TRUE ELSE should_attempt(h[pkey].cb, t)

\* should_attempt_provider that creates the entry it does not find
should_attempt_provider_state_creating(h, pkey, t) ==
    IF ~h[pkey].present THEN [h EXCEPT ![pkey].present = TRUE]
    ELSE [h EXCEPT ![pkey].cb = should_attempt_state(h[pkey].cb, t)]

\* the registry after should_attempt_provider(pkey)
should_attempt_provider_state(h, pkey, t) ==
    IF ~h[pkey].present THEN h
    ELSE [h EXCEPT ![pkey].cb = should_attempt_state(h[pkey].cb, t)]

\* key(p) with the weight term added instead of subtracted
SortKeyWeightAdded(h, p) ==
    LET e == IF h[p.key].present THEN h[p.key]
             ELSE [NoHealth EXCEPT !.avg = UnknownLatency]
    IN <<IF e.healthy THEN 0 ELSE 1, e.avg + p.weight * 10>>

\* pick_best's local function key(p): a pair compared lexicographically
SortKey(h, p) ==
    LET e == IF h[p.key].present THEN h[p.key]
             ELSE [NoHealth EXCEPT !.avg = UnknownLatency]
        circuit_penalty ==
            IF ~h[p.key].present THEN 0
            ELSE IF e.cb.state = "OPEN" THEN PenaltyOpen
            ELSE IF e.cb.state = "HALF_OPEN" THEN PenaltyHalfOpen
            ELSE 0
    IN <<IF e.healthy THEN 0 ELSE 1, circuit_penalty + e.avg - p.weight * 10>>

KeyLeq(a, b) == a[1] < b[1] \/ (a[1] = b[1] /\ a[2] <= b[2])

\* sorted(..., key=key) is stable: x goes behind every element that does not
\* compare greater
InsertSorted(h, s, x) ==
    LET n == Cardinality({i \in 1..Len(s) : KeyLeq(SortKey(h, s[i]), SortKey(h, x))})
    IN SubSeq(s, 1, n) \o <<x>> \o SubSeq(s, n + 1, Len(s))

RECURSIVE SortedByKey(_, _)
SortedByKey(h, s) ==
    IF s = <<>> THEN <<>>
    ELSE InsertSorted(h, SortedByKey(h, SubSeq(s, 1, Len(s) - 1)), s[Len(s)])

RECURSIVE AfterFilter(_, _, _)
\* the registry after the filter of pick_best has called
\* should_attempt_provider on every provider of the list
AfterFilter(h, providers, t) ==
    IF providers = <<>> THEN h
    ELSE AfterFilter(should_attempt_provider_state(h, Head(providers).key, t),
                     Tail(providers), t)

\* pick_best without the circuit breaker filter
pick_best_unfiltered(h, providers, t) ==
    SortedByKey(AfterFilter(h, providers, t), providers)

\* pick_best without the fallback to the whole list
pick_best_no_fallback(h, providers, t) ==
    LET available == SelectSeq(providers, LAMBDA p : should_attempt_provider(h, p.key, t))
    IN SortedByKey(AfterFilter(h, providers, t), available)

\* the list pick_best returns
pick_best(h, providers, t) ==
    LET available == SelectSeq(providers, LAMBDA p : should_attempt_provider(h, p.key, t))
        available_providers == IF available = <<>> THEN providers ELSE available
    IN SortedByKey(AfterFilter(h, providers, t), available_providers)

(***************************************************************************)
(* TokenBucket (util.py) and the in-memory limiter (rate_limit.py).        *)
(* _buckets is a dict: a name without a bucket has present = FALSE.        *)
(***************************************************************************)
Min(a, b) == IF a <= b THEN a ELSE b

NoBucket == [present |-> FALSE, capacity |-> 0, refill |-> 0, tokens |-> 0, last |-> 0]

TokenBucket(capacity, refill_per_sec, t) ==
    [present |-> TRUE, capacity |-> capacity, refill |-> refill_per_sec,
     tokens |-> capacity, last |-> t]

\* the refill without the cap at capacity
RefilledUncapped(b, t) == b.tokens + (t - b.last) * b.refill

\* tokens after the refill of TokenBucket.allow, before the test
Refilled(b, t) == Min(b.capacity, b.tokens + (t - b.last) * b.refill)

\* allow that grants on an empty bucket
bucket_allow_lenient(b, t) == Refilled(b, t) >= 0

\* the value TokenBucket.allow returns
bucket_allow(b, t) == Refilled(b, t) >= 1

\* TokenBucket.allow that takes no token
bucket_allow_state_free(b, t) ==
    [b EXCEPT !.tokens = Refilled(b, t), !.last = t]

\* the bucket after TokenBucket.allow
bucket_allow_state(b, t) ==
    [b EXCEPT !.tokens = IF Refilled(b, t) >= 1 THEN Refilled(b, t) - 1 ELSE Refilled(b, t),
              !.last = t]

\* _buckets.setdefault(name, TokenBucket(capacity, refill_per_sec))
BucketOf(bs, name, capacity, refill_per_sec, t) ==
    IF bs[name].present THEN bs[name] ELSE TokenBucket(capacity, refill_per_sec, t)

\* the value rate_limit.allow returns
rl_allow(bs, name, capacity, refill_per_sec, t) ==
    bucket_allow(BucketOf(bs, name, capacity, refill_per_sec, t), t)

\* rate_limit.allow that leaves _buckets as it found it
rl_allow_state_untouched(bs, name, capacity, refill_per_sec, t) == bs

\* _buckets after rate_limit.allow
rl_allow_state(bs, name, capacity, refill_per_sec, t) ==
    [bs EXCEPT ![name] = bucket_allow_state(BucketOf(bs, name, capacity, refill_per_sec, t), t)]

(***************************************************************************)
(* The distributed limiter (rate_limit.allow_async) on a shared store.     *)
(***************************************************************************)
\* a field hget finds absent (None)
NoField == -1
\* the hash "rl:{name}" of the store
NoHash == [tokens |-> NoField, last |-> NoField, capacity |-> NoField, refill |-> NoField]

\* results[i] or default
OrDefault(field, default) == IF field = NoField THEN default ELSE field

\* an allow_async coroutine: its position, its arguments, its locals now
\* and tokens, and what it returned and from where
\*   idle      not called
\*   read      suspended in await pipe.execute()              (line 49)
\*   config    suspended in await hset(capacity, refill)      (line 58)
\*   write     suspended in await hset(tokens, last, ...)     (lines 70, 81)
\*   expire    suspended in await expire(key, 3600)           (lines 77, 87)
\*   returned  returned ret; via is "store" or "memory"
\*   raised    an exception left allow_async
Limiters == 1..NumLimiters
NoLimiter ==
    [pc |-> "idle", name |-> <<>>, capacity |-> 0, refill |-> 0, t0 |-> 0, tokens |-> 0,
     ret |-> FALSE, via |-> "", failed |-> ""]

\* a try block that ends before the writes to the store
in_try_read_only(step) == step = "read"

\* lines 37-92: the awaits inside the try block
in_try(step) == step \in {"read", "config", "write", "expire"}

\* lines 64-65: the refill
StoreRefilled(capacity, refill_per_sec, tokens, last, t) ==
    Min(capacity, tokens + (t - last) * refill_per_sec)

(***************************************************************************)
(* Response cache (caching.py).                                            *)
(***************************************************************************)
NoCache == [present |-> FALSE, exp |-> 0, content |-> 0, headers |-> {}, status |-> 0]

\* get that counts an entry as expired at its expiry time already
cache_get_early(c, key, t) ==
    IF ~c[key].present THEN NoCache
    ELSE IF t >= c[key].exp THEN NoCache
    ELSE c[key]

\* the entry caching.get returns; present = FALSE stands for None
cache_get(c, key, t) ==
    IF ~c[key].present THEN NoCache
    ELSE IF t > c[key].exp THEN NoCache
    ELSE c[key]

\* _cache after caching.get: a stale entry is popped
cache_get_state(c, key, t) ==
    IF c[key].present /\ t > c[key].exp THEN [c EXCEPT ![key] = NoCache] ELSE c

cache_set(c, key, content, headers, status, ttl, t) ==
    [c EXCEPT ![key] = [present |-> TRUE, exp |-> t + ttl, content |-> content,
                        headers |-> headers, status |-> status]]

(***************************************************************************)
(* OAuth2 token manager (oauth2_manager.py).                               *)
(***************************************************************************)
\* OAuth2Token; present = FALSE stands for no entry in self.tokens
OAuth2Token(access_token, expires_at) ==
    [present |-> TRUE, access_token |-> access_token, expires_at |-> expires_at]
NoToken == [present |-> FALSE, access_token |-> "", expires_at |-> 0]

\* asyncio.Lock: its holder (0 when free) and the coroutines waiting for it
\* in order; created = FALSE stands for no entry in self.locks
NoLock == [created |-> FALSE, holder |-> 0, waiters |-> <<>>]

\* a get_token coroutine: its position, its provider_key, what it returned,
\* and whether it was called with no entry for the key in self.tokens and no
\* answer of the token endpoint for the key yet; since and sent are the
\* numbers of invalidate_token calls for the key before get_token was called
\* and before its POST to the token endpoint was sent
Callers == 1..NumCallers
NoCaller == [pc |-> "idle", key |-> "", result |-> "", empty |-> FALSE, since |-> 0, sent |-> 0]

\* token_data without "expires_in"
NoExpiresIn == -1

\* the lifetime taken as the endpoint gave it, without the default
expires_in_as_given(given) == given

\* line 94: token_data.get("expires_in", 3600)
expires_in_or_default(given) ==
    IF given = NoExpiresIn THEN DefaultExpiresIn ELSE given

\* the validity test with the comparison turned round
has_valid_token_flipped(toks, provider_key, t) ==
    /\ toks[provider_key].present
    /\ t > toks[provider_key].expires_at - TokenBuffer

\* lines 55-58: a token is cached and its expiry is more than 60 s away
has_valid_token(toks, provider_key, t) ==
    /\ toks[provider_key].present
    /\ t < toks[provider_key].expires_at - TokenBuffer

(***************************************************************************)
(* Budget ledger (budget.py), in-memory.  Amounts are in cents.            *)
(***************************************************************************)
\* seconds in the month of time.strftime("%Y-%m"), taken as 30 days
SecondsPerMonth == 2592000

month_key(t) == t \div SecondsPerMonth
\* month_key = None
NoMonth == -1
\* no budget, or no monthly_usd_max in it
NoBudget == -1
\* month_key or time.strftime("%Y-%m")
MonthOf(mk, t) == IF mk = NoMonth THEN month_key(t) ELSE mk

\* add_cost that stores the amount instead of adding it
add_cost_overwrite(bg, key, usd, mk, t) ==
    [bg EXCEPT ![<<key, MonthOf(mk, t)>>] = usd]

add_cost(bg, key, usd, mk, t) ==
    [bg EXCEPT ![<<key, MonthOf(mk, t)>>] = @ + usd]

get_cost(bg, key, mk, t) == bg[<<key, MonthOf(mk, t)>>]

(***************************************************************************)
(* ConnectorPolicy.path_allowed (connectors.py).  A path is a sequence of  *)
(* one-character strings.  An entry of allow_paths is an anchored literal  *)
(* ("^/u$") or the default "^.*$".                                         *)
(***************************************************************************)
IsHex(c) == c \in {"2", "5", "E", "F", "e", "f"}

\* the character "%ab" stands for; "?" is any character other than "/", "." and "%"
Decoded(a, b) ==
    IF a = "2" /\ b \in {"F", "f"} THEN "/"
    ELSE IF a = "2" /\ b \in {"E", "e"} THEN "."
    ELSE IF a = "2" /\ b = "5" THEN "%"
    ELSE "?"

RECURSIVE unquote(_)
\* urllib.parse.unquote: one pass, left to right
unquote(s) ==
    IF s = <<>> THEN <<>>
    ELSE IF s[1] = "%" /\ Len(s) >= 3 /\ IsHex(s[2]) /\ IsHex(s[3])
         THEN <<Decoded(s[2], s[3])>> \o unquote(SubSeq(s, 4, Len(s)))
         ELSE <<s[1]>> \o unquote(Tail(s))

RECURSIVE replace_double_slash(_)
\* str.replace('//', '/'): non-overlapping occurrences, left to right, one pass
replace_double_slash(s) ==
    IF Len(s) < 2 THEN s
    ELSE IF s[1] = "/" /\ s[2] = "/"
         THEN <<"/">> \o replace_double_slash(SubSeq(s, 3, Len(s)))
         ELSE <<s[1]>> \o replace_double_slash(Tail(s))

RECURSIVE rstrip_slash(_)
\* str.rstrip('/')
rstrip_slash(s) ==
    IF s # <<>> /\ s[Len(s)] = "/" THEN rstrip_slash(SubSeq(s, 1, Len(s) - 1)) ELSE s

\* '..' in normalized
has_dotdot(s) == \E i \in 1..(Len(s) - 1) : s[i] = "." /\ s[i + 1] = "."

\* the string path_allowed hands to re.fullmatch
normalize(path) ==
    LET n == rstrip_slash(replace_double_slash(unquote(path)))
    IN IF n # <<>> /\ n[1] = "/" THEN n ELSE <<"/">> \o n

fullmatch(pattern, s) ==
    IF pattern.kind = "any" THEN TRUE ELSE pattern.path = s

\* path_allowed with the traversal test on the path as received
path_allowed_undecoded(allow_paths, path) ==
    IF has_dotdot(path) THEN FALSE
    ELSE \E pattern \in allow_paths : fullmatch(pattern, normalize(path))

path_allowed(allow_paths, path) ==
    IF has_dotdot(rstrip_slash(replace_double_slash(unquote(path)))) THEN FALSE
    ELSE \E pattern \in allow_paths : fullmatch(pattern, normalize(path))

(***************************************************************************)
(* State.                                                                  *)
(***************************************************************************)
VARIABLES
    now,        \* time.time(), in seconds
    health,     \* health._health: provider key -> entry
    buckets,    \* rate_limit._buckets: name -> TokenBucket
    cache,      \* caching._cache: key -> entry
    budgets,    \* budget._in_memory_budgets: <<key, month>> -> cents
    req,        \* the request coroutines of Gateway.proxy in flight, one per slot
    done,       \* the request that returned in the last step, with its outcome
    rlSeen,     \* history: calls of rate_limit.allow per connector
    rlPassed,   \* history: calls of rate_limit.allow that returned True
    cb,         \* a CircuitBreaker object on its own (unit level)
    last,       \* history: the last unit-level call, [op, key, ret, from, seq]
    run,        \* history: record_failure calls on cb since the last success
    lastOk,     \* history: the last 2xx answer written to the cache, per request line
    policies,   \* Gateway.policies: connector -> ConnectorPolicy, immutable
    ops,        \* unit level: number of calls made so far
    asked,      \* unit level: the provider list of the last pick_best call
    ranked,     \* unit level: the list the last pick_best call returned
    arg,        \* unit level: the latency of the last mark_success call
    before,     \* unit level: the registry entry the last mark_* call found
    samples,    \* unit level: number of mark_success calls so far
    bucket,     \* unit level: a TokenBucket object on its own
    was,        \* unit level: the bucket before its last allow call
    grants,     \* unit level: number of allow calls that returned True
    latest,     \* unit level: per cache key, what the last caching.set stored
    got,        \* unit level: the time and the result of the last caching.get
    charges,    \* unit level: how often each amount was charged to each ledger key
    read,       \* unit level: the arguments and the result of the last get_cost
    tokens,     \* OAuth2Manager.tokens: provider_key -> OAuth2Token
    locks,      \* OAuth2Manager.locks: provider_key -> asyncio.Lock
    callers,    \* the get_token coroutines: position, key, result
    posts,      \* per provider_key, the answers of the token endpoint so far
    revoked,    \* history: per provider_key, the invalidate_token calls so far
    pth,        \* unit level: the path handed to path_allowed
    natoms,     \* unit level: the number of pieces pth was put together from
    allow,      \* unit level: allow_paths of the policy
    verdict,    \* unit level: what path_allowed and the admission check answer
    rds,        \* rate_limit._redis_client and the hash of the shared store per name
    lim         \* the allow_async coroutines: position, arguments, locals, result

\* the variables only the unit-level models of single components use
rankVars == <<asked, ranked>>
emaVars == <<arg, before, samples>>
bucketVars == <<bucket, was, grants>>
cacheVars == <<latest, got>>
ledgerVars == <<charges, read>>
oauthVars == <<tokens, locks, callers, posts, revoked>>
pathVars == <<pth, natoms, allow, verdict>>
limiterVars == <<rds, lim>>
unitVars == <<ops, rankVars, emaVars, bucketVars, cacheVars, ledgerVars, oauthVars, pathVars, limiterVars>>
\* what a unit-level model of one component leaves alone
exceptRank == <<emaVars, bucketVars, cacheVars, ledgerVars, oauthVars, pathVars, limiterVars>>
exceptEma == <<rankVars, bucketVars, cacheVars, ledgerVars, oauthVars, pathVars, limiterVars>>
exceptBucket == <<rankVars, emaVars, cacheVars, ledgerVars, oauthVars, pathVars, limiterVars>>
exceptCache == <<rankVars, emaVars, bucketVars, ledgerVars, oauthVars, pathVars, limiterVars>>
exceptLedger == <<ops, rankVars, emaVars, bucketVars, cacheVars, oauthVars, pathVars, limiterVars>>
exceptOAuth == <<ops, rankVars, emaVars, bucketVars, cacheVars, ledgerVars, pathVars, limiterVars>>
exceptPath == <<ops, rankVars, emaVars, bucketVars, cacheVars, ledgerVars, oauthVars, limiterVars>>
exceptLimiter == <<rankVars, emaVars, bucketVars, cacheVars, ledgerVars, oauthVars, pathVars>>

vars == <<now, health, buckets, cache, budgets, req, done, rlSeen, rlPassed, cb, last, run,
          lastOk, policies, unitVars>>
gatewayVars == <<buckets, cache, budgets, req, rlSeen, rlPassed, lastOk, policies>>

NoCall == [op |-> "none", key |-> "", ret |-> TRUE, from |-> "", seq |-> 0]

\* the record of a unit-level call: what it returned and the breaker state it
\* found; seq flips so that two equal calls in a row are two steps
Called(op, key, ret, from) ==
    [op |-> op, key |-> key, ret |-> ret, from |-> from, seq |-> 1 - last.seq]

\* the clock: time passes between any two steps, up to the horizon
Tick(horizon) ==
    /\ now + TickStep <= horizon
    /\ now' = now + TickStep
    /\ done' = [pc |-> "idle"]
    /\ UNCHANGED <<health, buckets, cache, budgets, req, rlSeen, rlPassed, cb, last, run, lastOk, policies>>
    /\ UNCHANGED unitVars

(***************************************************************************)
(* Unit level: one CircuitBreaker(failure_threshold, recovery_timeout),    *)
(* driven by should_attempt, record_success and record_failure.            *)
(***************************************************************************)
RecoveryTimeouts == {0, TickStep, 2 * TickStep}

CbShouldAttempt ==
    /\ cb' = should_attempt_state(cb, now)
    /\ last' = Called("should_attempt", "", should_attempt(cb, now), cb.state)
    /\ UNCHANGED <<now, health, run>>
    /\ done' = [pc |-> "idle"]
    /\ UNCHANGED gatewayVars
    /\ UNCHANGED unitVars

CbRecordSuccess ==
    /\ cb' = record_success(cb)
    /\ last' = Called("record_success", "", TRUE, cb.state)
    /\ run' = 0
    /\ UNCHANGED <<now, health>>
    /\ done' = [pc |-> "idle"]
    /\ UNCHANGED gatewayVars
    /\ UNCHANGED unitVars

CbRecordFailure ==
    /\ cb.failure_count < MaxCalls
    /\ cb' = record_failure(cb, now)
    /\ last' = Called("record_failure", "", TRUE, cb.state)
    /\ run' = run + 1
    /\ UNCHANGED <<now, health>>
    /\ done' = [pc |-> "idle"]
    /\ UNCHANGED gatewayVars
    /\ UNCHANGED unitVars

(***************************************************************************)
(* Unit level: the health registry, driven by mark_success, mark_failure   *)
(* and should_attempt_provider on one provider key.                        *)
(***************************************************************************)
HealthKeys == {"w:A"}

\* the state of the breaker of pkey; "" without an entry
BreakerState(h, pkey) == IF h[pkey].present THEN h[pkey].cb.state ELSE ""

RegMarkSuccess(pkey, latency_ms) ==
    /\ health' = mark_success(health, pkey, latency_ms)
    /\ last' = Called("mark_success", pkey, TRUE, BreakerState(health, pkey))
    /\ done' = [pc |-> "idle"]
    /\ UNCHANGED <<now, cb, run>>
    /\ UNCHANGED gatewayVars
    /\ UNCHANGED unitVars

RegMarkFailure(pkey) ==
    /\ health[pkey].cb.failure_count < MaxCalls
    /\ health' = mark_failure(health, pkey, now)
    /\ last' = Called("mark_failure", pkey, TRUE, BreakerState(health, pkey))
    /\ done' = [pc |-> "idle"]
    /\ UNCHANGED <<now, cb, run>>
    /\ UNCHANGED gatewayVars
    /\ UNCHANGED unitVars

RegShouldAttempt(pkey) ==
    /\ health' = should_attempt_provider_state(health, pkey, now)
    /\ last' = Called("should_attempt_provider", pkey,
                      should_attempt_provider(health, pkey, now), BreakerState(health, pkey))
    /\ done' = [pc |-> "idle"]
    /\ UNCHANGED <<now, cb, run>>
    /\ UNCHANGED gatewayVars
    /\ UNCHANGED unitVars

(***************************************************************************)
(* The configuration the gateway is built with (connectors.yaml): one      *)
(* connector "w" with two providers, a cache TTL, a rate limit without     *)
(* refill, retries, a cost per call and a monthly budget.  The policies    *)
(* are immutable after load; each specification fixes them in its Init.    *)
(***************************************************************************)
ProviderA == [name |-> "A", base_url |-> "urlA", weight |-> 2, key |-> "w:A"]
ProviderB == [name |-> "B", base_url |-> "urlB", weight |-> 1, key |-> "w:B"]
ProviderKeys == {"w:A", "w:B"}
Connectors == {"w"}

\* ConnectorPolicy.__init__: the fields of the policy the pipeline reads
ConnectorPolicy(capacity, cache_ttl, retries, cost, monthly_usd_max, on_exceed) ==
    [providers |-> <<ProviderA, ProviderB>>,
     base_url |-> "",
     allow_paths |-> {[kind |-> "literal", path |-> <<"/", "u">>]},
     rate |-> [capacity |-> capacity, refill_per_sec |-> 0],
     cache_ttl |-> cache_ttl,
     retries |-> retries,
     cost_per_call_usd |-> cost,
     budget |-> [monthly_usd_max |-> monthly_usd_max, on_exceed |-> on_exceed],
     passthrough |-> {<<"content-type", "application/json">>},
     auth |-> "none"]

\* what a caller may send
ConnectorNames == {"w", "zz"}
RequestPaths == {<<"u">>, <<"x">>}
Queries == {"q=1"}
\* what an upstream may answer with
Bodies == {1, 2}
Outcomes == {"2xx", "2xx_raise", "4xx", "5xx", "timeout"}
\* and a 2xx response for which building the Response of line 229 raises
LateOutcomes == Outcomes \cup {"2xx_raise_late"}


\* gateway.cache_key; the url is base_url.rstrip("/") + "/" + full_path
cache_key(connector, url, method, query) == <<connector, method, url, query>>

BaseUrls == {ProviderA.base_url, ProviderB.base_url}
RequestLines == (Connectors) \X RequestPaths \X Queries
Methods == {"GET", "POST"}
CacheKeys == {cache_key(c, <<b, p>>, m, q) :
                 c \in Connectors, b \in BaseUrls, p \in RequestPaths, q \in Queries,
                 m \in Methods}
NoKey == <<>>
\* the keys of the ledger: the connectors and a provider key, each month
BudgetNames == Connectors \cup {ProviderA.key}
BudgetKeys == BudgetNames \X (0..MaxMonth)
\* the amounts add_cost is called with in the ledger unit model
Amounts == {1, 2}

\* a response body: an upstream's (transformed) JSON value, the canonical
\* budget body, or the detail of an HTTPException
Content(kind, body, errors) == [kind |-> kind, body |-> body, errors |-> errors]
NoContent == Content("none", 0, <<>>)

NoAnswer == [present |-> FALSE, content |-> NoContent, status |-> 0, exp |-> 0]

Idle ==
    [pc |-> "idle", connector |-> "", path |-> <<>>, method |-> "", query |-> "",
     providers |-> <<>>, i |-> 0, attempt |-> 0, errors |-> <<>>, ck |-> NoKey,
     status |-> 0, content |-> NoContent, headers |-> {},
     \* history of the request
     calls |-> <<>>,      \* provider keys an upstream call was sent to, in order
     failed |-> <<>>,     \* provider keys mark_failure was called for, in order
     answered |-> {},     \* provider keys that answered 2xx
     skipped |-> {},      \* provider keys OPEN within their timeout at selection
     hit |-> FALSE,       \* answered from the cache
     charged |-> <<>>,    \* ledger keys add_cost was called with, in order
     heard |-> "",        \* how the latest upstream call of the request ended
     denied |-> <<>>,     \* provider keys whose token refresh failed, in order
     expect |-> NoAnswer] \* the answer of an identical GET that had completed when
                          \* this one was issued and is within its TTL

Slots == 1..NumSlots

\* raise HTTPException(status, detail) / return Response(...)
Respond(q, status, content, headers) ==
    [q EXCEPT !.pc = "done", !.status = status, !.content = content, !.headers = headers]

(***************************************************************************)
(* Gateway.proxy (gateway.py), one coroutine per slot.                     *)
(*   idle      not started                                                 *)
(*   body      past the admission checks, suspended in await request.body()*)
(*   auth      suspended in await _apply_auth(...) for provider i, in the  *)
(*             token refresh of an oauth2_client_credentials policy        *)
(*   upstream  suspended in await self.client.request(...) to provider i   *)
(*   done      returned a Response or raised an HTTPException: the slot is *)
(*             free again and the variable done shows the outcome          *)
(***************************************************************************)
rl_name(connector) == <<"rl", connector>>
BucketNames == {rl_name(c) : c \in Connectors}

\* slot r goes on as q; when q has returned, the slot is free again and done
\* shows the outcome for one step
Step(r, q) ==
    /\ req' = [req EXCEPT ![r] = IF q.pc = "done" THEN Idle
                                 ELSE [q EXCEPT !.expect.content = NoContent, !.expect.exp = 0]]
    /\ done' = IF q.pc = "done" THEN q ELSE [pc |-> "idle"]

\* the answer of an identical GET that is still within its TTL at time t
Expected(pols, answers, connector, full_path, method, query, t) ==
    LET line == <<connector, full_path, query>>
    IN IF method = "GET" /\ pols[connector].cache_ttl > 0
          /\ answers[line].present /\ t <= answers[line].exp
       THEN answers[line] ELSE NoAnswer

\* the admission checks with the path tested before the connector
AdmissionErrorPathFirst(pols, connector, full_path) ==
    IF \A c \in Connectors : ~path_allowed(pols[c].allow_paths, <<"/">> \o full_path) THEN 403
    ELSE IF connector \notin Connectors THEN 404
    ELSE 0

\* lines 73-81: the HTTPException the first two admission checks raise, 0
\* when both pass
AdmissionError(pols, connector, full_path) ==
    IF connector \notin Connectors THEN 404
    ELSE IF ~path_allowed(pols[connector].allow_paths, <<"/">> \o full_path) THEN 403
    ELSE 0

\* cfg.get("allow_paths", ["^.*$"])
AnyPath == [kind |-> "any", path |-> <<>>]
DefaultAllowPaths == {AnyPath}

\* what path_allowed answers for path, what it answers for the normalized
\* path, and what the admission checks of a connector with these allow_paths
\* answer to the request path (the path without its leading "/")
Verdict(allow_paths, path) ==
    [allowed |-> path_allowed(allow_paths, path),
     again |-> path_allowed(allow_paths, normalize(path)),
     admission |-> IF path # <<>> /\ path[1] = "/"
                   THEN AdmissionError([c \in Connectors |-> [allow_paths |-> allow_paths]],
                                       "w", Tail(path))
                   ELSE 0]

\* lines 73-93: the admission checks, up to the first suspension point
Admit(r, connector, full_path, method, query) ==
    /\ req[r].pc = "idle"
    /\ LET q == [Idle EXCEPT !.connector = connector, !.path = full_path,
                             !.method = method, !.query = query]
           error == AdmissionError(policies, connector, full_path)
       IN IF error # 0
          THEN /\ Step(r, Respond(q, error, Content("detail", 0, <<>>), {}))
               /\ UNCHANGED <<buckets, rlSeen, rlPassed>>
          ELSE LET rate == policies[connector].rate
                   ok == rl_allow(buckets, rl_name(connector), rate.capacity,
                                  rate.refill_per_sec, now)
               IN /\ rlSeen[connector] < rate.capacity + MaxRejected
                  /\ buckets' = rl_allow_state(buckets, rl_name(connector), rate.capacity,
                                               rate.refill_per_sec, now)
                  /\ rlSeen' = [rlSeen EXCEPT ![connector] = @ + 1]
                  /\ rlPassed' = [rlPassed EXCEPT ![connector] = @ + (IF ok THEN 1 ELSE 0)]
                  /\ Step(r, IF ok THEN [q EXCEPT !.pc = "body",
                                                 !.expect = Expected(policies, lastOk, connector,
                                                                     full_path, method, query, now)]
                                 ELSE Respond(q, 429, Content("detail", 0, <<>>), {}))
    /\ UNCHANGED <<now, health, cache, budgets, cb, last, run, lastOk, policies>>
    /\ UNCHANGED unitVars

\* the upstream call to candidate k is sent: await self.client.request(...)
SendTo(q, k) ==
    IF policies[q.connector].auth = "oauth2_client_credentials"
    THEN [q EXCEPT !.pc = "auth", !.i = k, !.attempt = 0]
    ELSE [q EXCEPT !.pc = "upstream", !.i = k, !.attempt = 0,
                   !.calls = Append(@, q.providers[k].key)]

\* continue: the next attempt of the retry loop, to the same provider
Retry(q) ==
    [q EXCEPT !.attempt = @ + 1, !.calls = Append(@, q.providers[q.i].key)]

\* errors.append(...); break: on to the next candidate, or 502 after the last
GiveUp(q, what) ==
    LET prov == q.providers[q.i]
        q1 == [q EXCEPT !.errors = Append(@, [name |-> prov.name, what |-> what]),
                        !.failed = Append(@, prov.key)]
    IN IF q.i < Len(q.providers) THEN SendTo(q1, q.i + 1)
       ELSE Respond(q1, 502, Content("detail", 0, q1.errors), {})

\* a breaker that is OPEN and whose recovery timeout has not elapsed at t
OpenWithinTimeout(h, key, t) ==
    /\ h[key].present
    /\ h[key].cb.state = "OPEN"
    /\ t - h[key].cb.last_failure_time <= h[key].cb.recovery_timeout

\* the cache condition without the test of the method
cache_used_any_method(policy, method) == policy.cache_ttl > 0

\* lines 108 and 216: policy.cache_ttl > 0 and method == "GET"
cache_used(policy, method) == policy.cache_ttl > 0 /\ method = "GET"

\* lines 95-121 and the first pass of line 132-153: candidates, cache probe,
\* first upstream call
Select(r) ==
    /\ req[r].pc = "body"
    /\ LET q == req[r]
           policy == policies[q.connector]
           cands == IF policy.providers # <<>>
                    THEN pick_best(health, policy.providers, now)
                    ELSE IF policy.base_url # ""
                    THEN <<[name |-> "default", base_url |-> policy.base_url, weight |-> 1,
                            key |-> "default"]>>
                    ELSE <<>>
           cacheable == cache_used(policy, q.method) /\ cands # <<>>
           ck == IF cacheable
                 THEN cache_key(q.connector, <<cands[1].base_url, q.path>>, q.method, q.query)
                 ELSE NoKey
           cached == IF cacheable THEN cache_get(cache, ck, now) ELSE NoCache
           keys == {policy.providers[k].key : k \in 1..Len(policy.providers)}
           q1 == [q EXCEPT
                    !.providers = cands,
                    !.ck = ck,
                    !.skipped = IF \E k \in keys : ~OpenWithinTimeout(health, k, now)
                                THEN {k \in keys : OpenWithinTimeout(health, k, now)}
                                ELSE {},
                    !.expect = IF q.expect.present
                               THEN Expected(policies, lastOk, q.connector, q.path,
                                             q.method, q.query, now)
                               ELSE NoAnswer]
       IN /\ health' = IF policy.providers # <<>>
                       THEN AfterFilter(health, policy.providers, now) ELSE health
          /\ cache' = IF cacheable THEN cache_get_state(cache, ck, now) ELSE cache
          /\ Step(r, IF cands = <<>>
                      THEN Respond(q1, 500, Content("detail", 0, <<>>), {})
                      ELSE IF cached.present
                      THEN Respond([q1 EXCEPT !.hit = TRUE], cached.status,
                                   cached.content, cached.headers)
                      ELSE SendTo(q1, 1))
    /\ UNCHANGED <<now, buckets, budgets, rlSeen, rlPassed, cb, last, run, lastOk, policies>>
    /\ UNCHANGED unitVars

\* line 201: policy.budget and policy.budget.get("monthly_usd_max")
BudgetSet(policy) ==
    policy.budget.monthly_usd_max # NoBudget /\ policy.budget.monthly_usd_max # 0

\* line 137: get_token returns the token, and the first upstream call to
\* the provider is sent, or it raises the exception of the token refresh,
\* which leaves Gateway.proxy from outside the try block of line 145
AuthReply(r, ok) ==
    /\ req[r].pc = "auth"
    /\ LET q == req[r]
           prov == q.providers[q.i]
       IN Step(r, IF ok
                  THEN [q EXCEPT !.pc = "upstream", !.calls = Append(@, prov.key)]
                  ELSE Respond([q EXCEPT !.denied = Append(@, prov.key)], 500,
                               Content("unhandled", 0, <<>>), {}))
    /\ UNCHANGED <<now, health, buckets, cache, budgets, rlSeen, rlPassed, cb, last, run,
                   lastOk, policies>>
    /\ UNCHANGED unitVars

\* lines 232, 244, 254: after an attempt that did not end in a returned
\* response, every such attempt is tried again while attempts are left
retry_again_always(outcome, attempt, max_retries) == attempt < max_retries

\* lines 232, 244, 254: a status >= 500 and an exception are tried again on
\* the same provider while attempt < max_retries, another non-2xx status not
retry_again(outcome, attempt, max_retries) ==
    outcome # "4xx" /\ attempt < max_retries

\* lines 159-229: the success branch, from mark_success to the return; with
\* raises, line 229 raises instead of returning
Success(r, latency_ms, body, raises) ==
    LET q == [req[r] EXCEPT !.heard = IF raises THEN "2xx_raise_late" ELSE "2xx"]
        prov == q.providers[q.i]
        policy == policies[q.connector]
        max_retries == policy.retries
        content == Content("upstream", body, <<>>)
        charged == policy.cost_per_call_usd > 0
        bg == IF charged THEN add_cost(budgets, q.connector, policy.cost_per_call_usd, NoMonth, now)
              ELSE budgets
        spent == get_cost(bg, q.connector, NoMonth, now)
        exceeded == /\ charged
                    /\ BudgetSet(policy)
                    /\ spent > policy.budget.monthly_usd_max
        blocked == exceeded /\ policy.budget.on_exceed = "block"
        out_headers == policy.passthrough \cup
                       (IF exceeded THEN {<<"x-apibridge-budget", <<"exceeded", spent>>>>}
                        ELSE {})
        stored == q.ck # NoKey /\ cache_used(policy, q.method)
        q1 == [q EXCEPT !.answered = @ \cup {prov.key},
                        !.charged = IF charged THEN Append(@, q.connector) ELSE @]
        h1 == mark_success(health, prov.key, latency_ms)
    IN /\ budgets' = bg
       /\ cache' = IF stored /\ ~blocked
                   THEN cache_set(cache, q.ck, content, out_headers, 200, policy.cache_ttl, now)
                   ELSE cache
       /\ lastOk' = IF q.method = "GET" /\ policy.cache_ttl > 0 /\ ~blocked
                       /\ ~raises
                    THEN [lastOk EXCEPT ![<<q.connector, q.path, q.query>>] =
                            [present |-> TRUE, content |-> content, status |-> 200,
                             exp |-> now + policy.cache_ttl]]
                    ELSE lastOk
       /\ health' = IF raises /\ ~blocked
                       /\ ~retry_again("2xx_raise_late", q.attempt, max_retries)
                    THEN mark_failure(h1, prov.key, now) ELSE h1
       /\ Step(r, IF blocked
                   THEN Respond(q1, 402, Content("budget_exceeded", 0, <<>>),
                                {<<"content-type", "application/json">>})
                   ELSE IF raises
                   THEN IF retry_again("2xx_raise_late", q.attempt, max_retries)
                        THEN Retry(q1)
                        ELSE GiveUp(q1, "Exception")
                   ELSE Respond(q1, 200, content,
                                out_headers \cup
                                {<<"X-ApiBridge-Provider", prov.name>>,
                                 <<"X-ApiBridge-Latency-Ms", ToString(latency_ms)>>,
                                 <<"X-ApiBridge-Cache", "miss">>}))

\* lines 143-260: the answer of the awaited upstream call arrives.
\*   2xx        a 2xx response, processed and returned
\*   2xx_raise  a 2xx response whose processing raises inside the try block
\*              (orjson.dumps on an integer beyond 64 bits, for one)
\*   2xx_raise_late
\*              a 2xx response for which Response(...) of line 229 raises (a
\*              passed-through header value that latin-1 cannot encode)
\*   4xx, 5xx   a non-2xx response
\*   timeout    httpx.TimeoutException
Reply(r, outcome, latency_ms, body) ==
    /\ req[r].pc = "upstream"
    /\ LET q == [req[r] EXCEPT !.heard = outcome]
           prov == q.providers[q.i]
           max_retries == policies[q.connector].retries
           again == retry_again(outcome, q.attempt, max_retries)
       IN IF outcome \in {"2xx", "2xx_raise_late"}
          THEN Success(r, latency_ms, body, outcome = "2xx_raise_late")
          ELSE /\ UNCHANGED <<cache, budgets, lastOk>>
               /\ IF outcome = "2xx_raise"
                  THEN LET h1 == mark_success(health, prov.key, latency_ms)
                           q1 == [q EXCEPT !.answered = @ \cup {prov.key}]
                       IN IF again
                          THEN /\ health' = h1
                               /\ Step(r, Retry(q1))
                          ELSE /\ health' = mark_failure(h1, prov.key, now)
                               /\ Step(r, GiveUp(q1, "Exception"))
                  ELSE IF again
                  THEN /\ health' = health
                       /\ Step(r, Retry(q))
                  ELSE /\ health' = mark_failure(health, prov.key, now)
                       /\ Step(r, GiveUp(q, IF outcome = "4xx" THEN "404"
                                            ELSE IF outcome = "5xx" THEN "503"
                                            ELSE outcome))
    /\ UNCHANGED <<now, buckets, rlSeen, rlPassed, cb, last, run, policies>>
    /\ UNCHANGED unitVars

(***************************************************************************)
(* Specifications.                                                         *)
(***************************************************************************)
InitGateway(policy) ==
    /\ policies = [c \in Connectors |-> policy]
    /\ buckets = [n \in BucketNames |-> NoBucket]
    /\ cache = [k \in CacheKeys |-> NoCache]
    /\ budgets = [k \in BudgetKeys |-> 0]
    /\ req = [r \in Slots |-> Idle]
    /\ done = [pc |-> "idle"]
    /\ rlSeen = [c \in Connectors |-> 0]
    /\ rlPassed = [c \in Connectors |-> 0]
    /\ lastOk = [l \in RequestLines |-> NoAnswer]

\* the unit-level variables before any unit-level call
InitLimiterVars ==
    /\ rds = [client |-> FALSE, hash |-> [n \in BucketNames |-> NoHash]]
    /\ lim = [c \in Limiters |-> NoLimiter]
InitRankVars == asked = <<>> /\ ranked = <<>>
InitEmaVars == arg = 0 /\ before = NoHealth /\ samples = 0
InitBucketVars == bucket = NoBucket /\ was = NoBucket /\ grants = 0
InitCacheVars == latest = [k \in CacheKeys |-> NoCache] /\ got = [at |-> 0, key |-> NoKey, value |-> NoCache]
InitLedgerVars ==
    /\ charges = [c \in BudgetKeys \X Amounts |-> 0]
    /\ read = [key |-> "", month |-> NoMonth, value |-> 0]
InitOAuthVars ==
    /\ tokens = [k \in ProviderKeys |-> NoToken]
    /\ locks = [k \in ProviderKeys |-> NoLock]
    /\ callers = [c \in Callers |-> NoCaller]
    /\ posts = [k \in ProviderKeys |-> <<>>]
    /\ revoked = [k \in ProviderKeys |-> 0]
InitPathVars ==
    /\ pth = <<>> /\ natoms = 0
    /\ allow = DefaultAllowPaths
    /\ verdict = Verdict(DefaultAllowPaths, <<>>)
InitUnit ==
    /\ ops = 0 /\ InitRankVars /\ InitEmaVars /\ InitBucketVars /\ InitCacheVars
    /\ InitLedgerVars /\ InitOAuthVars /\ InitPathVars /\ InitLimiterVars

\* a connector with a cache, retries, a cost per call and a blocking budget
CachedPolicy ==
    ConnectorPolicy(RateCapacity, CacheTtl, Retries, CostPerCall, BudgetMax, "block")

\* a connector without cache, retries and cost, and room for enough requests
\* to open a breaker
PlainPolicy == ConnectorPolicy(OpenCapacity, 0, 0, 0, 0, "block")

\* the process after startup: empty registry, no bucket, empty cache
InitWith(policy) ==
    /\ now = 0
    /\ health = [k \in ProviderKeys |-> NoHealth]
    /\ InitGateway(policy)
    /\ InitUnit
    /\ cb = CircuitBreaker(DefaultFailureThreshold, DefaultRecoveryTimeout)
    /\ last = NoCall
    /\ run = 0

Init == InitWith(CachedPolicy)

\* GET requests whose upstream calls end in a response; the clock runs one
\* step, past the cache TTL
Next ==
    \/ Tick(TickStep)
    \/ \E r \in Slots, c \in ConnectorNames, p \in RequestPaths, q \in Queries :
          Admit(r, c, p, "GET", q)
    \/ \E r \in Slots : Select(r)
    \/ \E r \in Slots, o \in Outcomes \ {"timeout"}, l \in Latencies, b \in Bodies :
          Reply(r, o, l, b)

Spec == Init /\ [][Next]_vars

\* one CircuitBreaker object, any threshold and recovery timeout
InitBreaker ==
    /\ now = 0
    /\ health = [k \in ProviderKeys |-> NoHealth]
    /\ InitGateway(CachedPolicy)
    /\ InitUnit
    /\ cb \in {CircuitBreaker(th, to) : th \in 1..MaxThreshold, to \in RecoveryTimeouts}
    /\ last = NoCall
    /\ run = 0

NextBreaker ==
    \/ Tick(MaxTime)
    \/ CbShouldAttempt
    \/ CbRecordSuccess
    \/ CbRecordFailure

SpecBreaker == InitBreaker /\ [][NextBreaker]_vars

\* the registry on its own
NextHealth ==
    \/ Tick(MaxTime)
    \/ \E k \in HealthKeys, l \in Latencies : RegMarkSuccess(k, l)
    \/ \E k \in HealthKeys : RegMarkFailure(k)
    \/ \E k \in HealthKeys : RegShouldAttempt(k)

SpecHealth == Init /\ [][NextHealth]_vars

\* failover between the two providers: upstream calls that answer, fail or
\* time out, and a clock that runs past the
\* recovery timeout
InitOpen == InitWith(PlainPolicy)

NextOpen ==
    \/ Tick(MaxTime)
    \/ \E r \in Slots, q \in Queries : Admit(r, "w", <<"u">>, "GET", q)
    \/ \E r \in Slots : Select(r)
    \/ \E r \in Slots, o \in Outcomes \ {"2xx_raise", "4xx"}, l \in Latencies :
          Reply(r, o, l, 1)

SpecOpen == InitOpen /\ [][NextOpen]_vars

(***************************************************************************)
(* The gateway under each budget configuration: cost_per_call_usd 0 or     *)
(* CostPerCall, monthly_usd_max absent, 0 or 1, on_exceed block or         *)
(* downgrade_provider; no cache, and no time passes.                       *)
(***************************************************************************)
BudgetPolicies ==
    {ConnectorPolicy(BudgetCapacity, 0, Retries, c, m, e) :
        c \in {0, CostPerCall}, m \in {NoBudget, 0, 1},
        e \in {"block", "downgrade_provider"}}

InitBudget ==
    /\ now = 0
    /\ health = [k \in ProviderKeys |-> NoHealth]
    /\ \E policy \in BudgetPolicies : InitGateway(policy)
    /\ InitUnit
    /\ cb = CircuitBreaker(DefaultFailureThreshold, DefaultRecoveryTimeout)
    /\ last = NoCall
    /\ run = 0

NextBudget ==
    \/ \E r \in Slots, c \in ConnectorNames, p \in RequestPaths, q \in Queries :
          Admit(r, c, p, "GET", q)
    \/ \E r \in Slots : Select(r)
    \/ \E r \in Slots, o \in {"2xx", "2xx_raise_late", "5xx"}, l \in Latencies :
          Reply(r, o, l, 1)

SpecBudget == InitBudget /\ [][NextBudget]_vars

(***************************************************************************)
(* The gateway with retries 0 .. MaxRetries and every way an upstream call *)
(* can end; no cache, no cost, and no time passes.                         *)
(***************************************************************************)
RetryPolicies ==
    {ConnectorPolicy(RetryCapacity, 0, n, 0, NoBudget, "block") : n \in 0..MaxRetries}

InitRetry ==
    /\ now = 0
    /\ health = [k \in ProviderKeys |-> NoHealth]
    /\ \E policy \in RetryPolicies : InitGateway(policy)
    /\ InitUnit
    /\ cb = CircuitBreaker(DefaultFailureThreshold, DefaultRecoveryTimeout)
    /\ last = NoCall
    /\ run = 0

NextRetry ==
    \/ \E r \in Slots, q \in Queries : Admit(r, "w", <<"u">>, "GET", q)
    \/ \E r \in Slots : Select(r)
    \/ \E r \in Slots, o \in Outcomes, l \in Latencies : Reply(r, o, l, 1)

SpecRetry == InitRetry /\ [][NextRetry]_vars

(***************************************************************************)
(* The gateway with an oauth2_client_credentials policy: the token refresh *)
(* for a candidate succeeds or fails.                                      *)
(***************************************************************************)
OAuthPolicy ==
    [ConnectorPolicy(RetryCapacity, 0, 0, 0, NoBudget, "block")
        EXCEPT !.auth = "oauth2_client_credentials"]

InitAuth == InitWith(OAuthPolicy)

NextAuth ==
    \/ Tick(MaxTime)
    \/ \E r \in Slots, q \in Queries : Admit(r, "w", <<"u">>, "GET", q)
    \/ \E r \in Slots : Select(r)
    \/ \E r \in Slots, ok \in BOOLEAN : AuthReply(r, ok)
    \/ \E r \in Slots, o \in {"2xx", "5xx"}, l \in Latencies : Reply(r, o, l, 1)

SpecAuth == InitAuth /\ [][NextAuth]_vars

(***************************************************************************)
(* The gateway with GET and POST requests to a connector with or without a *)
(* cache TTL.                                                              *)
(***************************************************************************)
MethodPolicies ==
    {ConnectorPolicy(MethodCapacity, ttl, 0, 0, NoBudget, "block") : ttl \in {0, CacheTtl}}

InitMethods ==
    /\ now = 0
    /\ health = [k \in ProviderKeys |-> NoHealth]
    /\ \E policy \in MethodPolicies : InitGateway(policy)
    /\ InitUnit
    /\ cb = CircuitBreaker(DefaultFailureThreshold, DefaultRecoveryTimeout)
    /\ last = NoCall
    /\ run = 0

NextMethods ==
    \/ Tick(TickStep)
    \/ \E r \in Slots, m \in Methods, q \in Queries : Admit(r, "w", <<"u">>, m, q)
    \/ \E r \in Slots : Select(r)
    \/ \E r \in Slots, o \in {"2xx", "5xx"}, l \in Latencies : Reply(r, o, l, 1)

SpecMethods == InitMethods /\ [][NextMethods]_vars

(***************************************************************************)
(* The gateway with cache, retries, cost and a blocking budget, whose      *)
(* upstream calls end in a 2xx response that is returned, in a 2xx         *)
(* response whose Response(...) raises, or in a 5xx response.              *)
(***************************************************************************)
NextStore ==
    \/ Tick(TickStep)
    \/ \E r \in Slots, q \in Queries : Admit(r, "w", <<"u">>, "GET", q)
    \/ \E r \in Slots : Select(r)
    \/ \E r \in Slots, o \in {"2xx", "2xx_raise_late", "5xx"}, l \in Latencies :
          Reply(r, o, l, 1)

SpecStore == Init /\ [][NextStore]_vars

(***************************************************************************)
(* Unit level: pick_best on the registry of two providers, between calls   *)
(* of mark_success and mark_failure.                                       *)
(***************************************************************************)
ProviderLists == {<<ProviderA, ProviderB>>, <<ProviderB, ProviderA>>}

RankMarkSuccess(pkey, latency_ms) ==
    /\ ops < MaxOps
    /\ health' = mark_success(health, pkey, latency_ms)
    /\ last' = Called("mark_success", pkey, TRUE, BreakerState(health, pkey))
    /\ ops' = ops + 1
    /\ done' = [pc |-> "idle"]
    /\ UNCHANGED <<now, cb, run, asked, ranked>>
    /\ UNCHANGED <<gatewayVars, exceptRank>>

RankMarkFailure(pkey) ==
    /\ ops < MaxOps
    /\ health' = mark_failure(health, pkey, now)
    /\ last' = Called("mark_failure", pkey, TRUE, BreakerState(health, pkey))
    /\ ops' = ops + 1
    /\ done' = [pc |-> "idle"]
    /\ UNCHANGED <<now, cb, run, asked, ranked>>
    /\ UNCHANGED <<gatewayVars, exceptRank>>

RankPick(providers) ==
    /\ ops < MaxOps
    /\ ranked' = pick_best(health, providers, now)
    /\ asked' = providers
    /\ health' = AfterFilter(health, providers, now)
    /\ last' = Called("pick_best", "", TRUE, "")
    /\ ops' = ops + 1
    /\ done' = [pc |-> "idle"]
    /\ UNCHANGED <<now, cb, run>>
    /\ UNCHANGED <<gatewayVars, exceptRank>>

NextRank ==
    \/ Tick(MaxTime)
    \/ \E k \in ProviderKeys, l \in Latencies : RankMarkSuccess(k, l)
    \/ \E k \in ProviderKeys : RankMarkFailure(k)
    \/ \E ps \in ProviderLists : RankPick(ps)

SpecRank == Init /\ [][NextRank]_vars

(***************************************************************************)
(* The gateway with a cache entry that outlives the recovery timeout of    *)
(* the breakers: requests one after the other, upstream calls that answer  *)
(* 2xx or 5xx, and a clock that runs past the recovery timeout.            *)
(***************************************************************************)
ProbePolicy == ConnectorPolicy(ProbeCapacity, MaxTime, 0, 0, NoBudget, "block")

InitProbe == InitWith(ProbePolicy)

NextProbe ==
    \/ Tick(MaxTime)
    \/ \E q \in Queries : Admit(1, "w", <<"u">>, "GET", q)
    \/ Select(1)
    \/ \E o \in {"2xx", "5xx"}, l \in Latencies : Reply(1, o, l, 1)

SpecProbe == InitProbe /\ [][NextProbe]_vars

(***************************************************************************)
(* The gateway under requests that keep arriving, one after the other,     *)
(* for ever.  The history counters of the limiter are left alone, and the  *)
(* clock, once at MaxTime, goes on by moving every stored time stamp back  *)
(* instead: a time stamp that is MaxTime old is older than the recovery    *)
(* timeout and than a full refill, and stays at 0.  An upstream call fails *)
(* only while the breaker of provider A is CLOSED: once it is OPEN, the    *)
(* upstream of A has recovered and the other provider is in good order.    *)
(* No provider fails more than MaxCalls times in a row.                    *)
(***************************************************************************)
RecoverPolicy ==
    [ConnectorPolicy(RecoverCapacity, 0, 0, 0, NoBudget, "block")
        EXCEPT !.rate.refill_per_sec = 1]

InitRecover == InitWith(RecoverPolicy)

\* lines 73-93 as in Admit, for a request beyond any count
Arrive(r, connector, full_path, method, query) ==
    /\ req[r].pc = "idle"
    /\ LET q == [Idle EXCEPT !.connector = connector, !.path = full_path,
                             !.method = method, !.query = query]
           error == AdmissionError(policies, connector, full_path)
       IN IF error # 0
          THEN /\ Step(r, Respond(q, error, Content("detail", 0, <<>>), {}))
               /\ UNCHANGED buckets
          ELSE LET rate == policies[connector].rate
                   ok == rl_allow(buckets, rl_name(connector), rate.capacity,
                                  rate.refill_per_sec, now)
               IN /\ buckets' = rl_allow_state(buckets, rl_name(connector), rate.capacity,
                                               rate.refill_per_sec, now)
                  /\ Step(r, IF ok THEN [q EXCEPT !.pc = "body",
                                                 !.expect = Expected(policies, lastOk, connector,
                                                                     full_path, method, query, now)]
                                 ELSE Respond(q, 429, Content("detail", 0, <<>>), {}))
    /\ UNCHANGED <<now, health, cache, budgets, rlSeen, rlPassed, cb, last, run, lastOk, policies>>
    /\ UNCHANGED unitVars

\* a time stamp after TickStep more seconds, seen from a clock that stays
Shifted(ts) == IF ts >= TickStep THEN ts - TickStep ELSE 0

\* time.time() goes on beyond MaxTime
TickOn ==
    /\ now + TickStep > MaxTime
    /\ health' = [k \in ProviderKeys |->
                    [health[k] EXCEPT !.cb.last_failure_time = Shifted(@)]]
    /\ buckets' = [n \in BucketNames |-> [buckets[n] EXCEPT !.last = Shifted(@)]]
    /\ done' = [pc |-> "idle"]
    /\ UNCHANGED <<now, cache, budgets, req, rlSeen, rlPassed, cb, last, run, lastOk, policies>>
    /\ UNCHANGED unitVars

Elapse == Tick(MaxTime) \/ TickOn

\* an upstream call ends; it ends in 2xx unless the breaker of A is CLOSED
\* and the provider called has failed fewer than MaxCalls times in a row
RecoverReply(r, o) ==
    /\ req[r].pc = "upstream"
    /\ o = "5xx" =>
          /\ ~health["w:A"].present \/ health["w:A"].cb.state = "CLOSED"
          /\ health[req[r].providers[req[r].i].key].cb.failure_count < MaxCalls
    /\ \E l \in Latencies : Reply(r, o, l, 1)

\* the next step of the request in slot 1: it arrives, picks its candidates,
\* or hears from the upstream it called
Proceed ==
    \/ \E q \in Queries : Arrive(1, "w", <<"u">>, "GET", q)
    \/ Select(1)
    \/ \E o \in {"2xx", "5xx"} : RecoverReply(1, o)

NextRecover == Elapse \/ Proceed

\* time passes, requests keep arriving, and the coroutine of a request goes
\* on whenever it can: an upstream call returns or times out
SpecRecover ==
    /\ InitRecover /\ [][NextRecover]_vars
    /\ WF_vars(Elapse)
    /\ WF_vars(Proceed)

(***************************************************************************)
(* Unit level: pick_best on lists of one or two providers while both       *)
(* breakers count failures up to the threshold and the clock runs past the *)
(* recovery timeout.                                                       *)
(***************************************************************************)
PickLists == ProviderLists \cup {<<ProviderA>>, <<ProviderB>>}

Pick(providers) ==
    /\ ranked' = pick_best(health, providers, now)
    /\ asked' = providers
    /\ health' = AfterFilter(health, providers, now)
    /\ last' = Called("pick_best", "", TRUE, "")
    /\ done' = [pc |-> "idle"]
    /\ UNCHANGED <<now, cb, run, ops>>
    /\ UNCHANGED <<gatewayVars, exceptRank>>

PickMarkSuccess(pkey, latency_ms) ==
    /\ ops < MaxSuccesses
    /\ health' = mark_success(health, pkey, latency_ms)
    /\ last' = Called("mark_success", pkey, TRUE, BreakerState(health, pkey))
    /\ ops' = ops + 1
    /\ done' = [pc |-> "idle"]
    /\ UNCHANGED <<now, cb, run, asked, ranked>>
    /\ UNCHANGED <<gatewayVars, exceptRank>>

NextPick ==
    \/ Tick(MaxTime)
    \/ \E k \in ProviderKeys, l \in Latencies : PickMarkSuccess(k, l)
    \/ \E k \in ProviderKeys : RegMarkFailure(k)
    \/ \E ps \in PickLists : Pick(ps)

SpecPick == Init /\ [][NextPick]_vars

(***************************************************************************)
(* Unit level: the moving average of one registry entry, over latency      *)
(* samples that make 0.7 * old + 0.3 * latency whole, fractional and       *)
(* inexact.                                                                *)
(***************************************************************************)
Samples == {3, 100, 102}

EmaMarkSuccess(pkey, latency_ms) ==
    /\ ops < MaxOps
    /\ health' = mark_success(health, pkey, latency_ms)
    /\ last' = Called("mark_success", pkey, TRUE, BreakerState(health, pkey))
    /\ arg' = latency_ms
    /\ before' = health[pkey]
    /\ samples' = samples + 1
    /\ ops' = ops + 1
    /\ done' = [pc |-> "idle"]
    /\ UNCHANGED <<now, cb, run>>
    /\ UNCHANGED <<gatewayVars, exceptEma>>

EmaMarkFailure(pkey) ==
    /\ ops < MaxOps
    /\ health' = mark_failure(health, pkey, now)
    /\ last' = Called("mark_failure", pkey, TRUE, BreakerState(health, pkey))
    /\ before' = health[pkey]
    /\ ops' = ops + 1
    /\ done' = [pc |-> "idle"]
    /\ UNCHANGED <<now, cb, run, arg, samples>>
    /\ UNCHANGED <<gatewayVars, exceptEma>>

NextEma ==
    \/ \E k \in HealthKeys, l \in Samples : EmaMarkSuccess(k, l)
    \/ \E k \in HealthKeys : EmaMarkFailure(k)

SpecEma == Init /\ [][NextEma]_vars

(***************************************************************************)
(* Unit level: one TokenBucket(capacity, refill_per_sec), created full at  *)
(* time 0, driven by allow with idle gaps in between.  Times and refill    *)
(* rates are whole numbers here, so token counts are whole.                *)
(***************************************************************************)
Refills == {0, 1}
Gaps == {1, 2}

BucketAllow ==
    /\ ops < MaxOps
    /\ was' = bucket
    /\ bucket' = bucket_allow_state(bucket, now)
    /\ last' = Called("allow", "", bucket_allow(bucket, now), "")
    /\ grants' = grants + (IF bucket_allow(bucket, now) THEN 1 ELSE 0)
    /\ ops' = ops + 1
    /\ done' = [pc |-> "idle"]
    /\ UNCHANGED <<now, health, cb, run>>
    /\ UNCHANGED <<gatewayVars, exceptBucket>>

\* an idle gap of d seconds
BucketWait(d) ==
    /\ now + d <= BucketHorizon
    /\ now' = now + d
    /\ done' = [pc |-> "idle"]
    /\ UNCHANGED <<health, cb, last, run, ops, bucketVars>>
    /\ UNCHANGED <<gatewayVars, exceptBucket>>

InitBucket ==
    /\ now = 0
    /\ health = [k \in ProviderKeys |-> NoHealth]
    /\ InitGateway(CachedPolicy)
    /\ cb = CircuitBreaker(DefaultFailureThreshold, DefaultRecoveryTimeout)
    /\ last = NoCall
    /\ run = 0
    /\ ops = 0 /\ InitRankVars /\ InitEmaVars /\ InitCacheVars /\ InitLedgerVars
    /\ InitOAuthVars /\ InitPathVars /\ InitLimiterVars
    /\ bucket \in {TokenBucket(c, r, 0) : c \in 1..MaxBucket, r \in Refills}
    /\ was = NoBucket
    /\ grants = 0

NextBucket ==
    \/ BucketAllow
    \/ \E d \in Gaps : BucketWait(d)

SpecBucket == InitBucket /\ [][NextBucket]_vars

(***************************************************************************)
(* Unit level: allow_async on a store whose every call may fail, beside    *)
(* the in-memory buckets it falls back to.                                 *)
(***************************************************************************)
LimiterFrame ==
    /\ done' = [pc |-> "idle"]
    /\ UNCHANGED <<now, health, cache, budgets, req, rlSeen, rlPassed, lastOk, policies,
                   cb, last, run>>
    /\ UNCHANGED exceptLimiter

\* lines 94-96: the in-memory bucket of the name decides
Fallback(c, q, step) ==
    /\ lim' = [lim EXCEPT ![c] =
                 [q EXCEPT !.pc = "returned", !.via = "memory", !.failed = step,
                           !.ret = rl_allow(buckets, q.name, q.capacity, q.refill, now)]]
    /\ buckets' = rl_allow_state(buckets, q.name, q.capacity, q.refill, now)

\* a call of the store made at position step raises
StoreFails(c, step) ==
    IF in_try(step)
    THEN Fallback(c, lim[c], step)
    ELSE /\ lim' = [lim EXCEPT ![c].pc = "raised", ![c].failed = step]
         /\ UNCHANGED buckets

\* lines 19-27, at startup: the client is kept if the store answers the ping
InitRateLimiter(ok) ==
    /\ ops = 0 /\ ~rds.client
    /\ \A c \in Limiters : lim[c].pc = "idle"
    /\ ok
    /\ rds' = [rds EXCEPT !.client = TRUE]
    /\ UNCHANGED <<ops, lim, buckets>>
    /\ LimiterFrame

\* lines 36-49: allow_async is called; without a client it goes to the
\* in-memory bucket at once
AllowAsync(c, name, capacity, refill_per_sec) ==
    /\ lim[c].pc \in {"idle", "returned"}
    /\ ops < MaxAllowCalls
    /\ ops' = ops + 1
    /\ LET q == [NoLimiter EXCEPT !.name = name, !.capacity = capacity,
                                  !.refill = refill_per_sec, !.t0 = now]
       IN IF rds.client
          THEN /\ lim' = [lim EXCEPT ![c] = [q EXCEPT !.pc = "read"]]
               /\ UNCHANGED buckets
          ELSE Fallback(c, q, "")
    /\ UNCHANGED rds
    /\ LimiterFrame

\* lines 63-68: the refill and the test, then the await of the write
Decided(q, stored_tokens, stored_last) ==
    LET refilled == StoreRefilled(q.capacity, q.refill, stored_tokens, stored_last, q.t0)
    IN [q EXCEPT !.pc = "write",
                 !.ret = refilled >= 1,
                 !.tokens = IF refilled >= 1 THEN refilled - 1 ELSE refilled]

\* lines 49-61: the pipeline answers, or raises
ReadReply(c, ok) ==
    /\ lim[c].pc = "read"
    /\ IF ok
       THEN LET q == lim[c]
                h == rds.hash[q.name]
                tokens0 == OrDefault(h.tokens, q.capacity)
                last0 == OrDefault(h.last, q.t0)
                stored_capacity == OrDefault(h.capacity, q.capacity)
                stored_refill == OrDefault(h.refill, q.refill)
            IN /\ lim' = [lim EXCEPT ![c] =
                            IF stored_capacity # q.capacity \/ stored_refill # q.refill
                            THEN [Decided(q, tokens0, last0) EXCEPT !.pc = "config"]
                            ELSE Decided(q, tokens0, last0)]
               /\ UNCHANGED buckets
       ELSE StoreFails(c, "read")
    /\ UNCHANGED <<ops, rds>>
    /\ LimiterFrame

\* lines 58-61: the hset of capacity and refill answers, or raises
ConfigReply(c, ok) ==
    /\ lim[c].pc = "config"
    /\ IF ok
       THEN /\ rds' = [rds EXCEPT !.hash[lim[c].name].capacity = lim[c].capacity,
                                  !.hash[lim[c].name].refill = lim[c].refill]
            /\ lim' = [lim EXCEPT ![c].pc = "write"]
            /\ UNCHANGED buckets
       ELSE StoreFails(c, "config") /\ UNCHANGED rds
    /\ UNCHANGED ops
    /\ LimiterFrame

\* lines 70-75 and 81-86: the hset of tokens and last answers, or raises
WriteReply(c, ok) ==
    /\ lim[c].pc = "write"
    /\ IF ok
       THEN /\ rds' = [rds EXCEPT !.hash[lim[c].name] =
                          [tokens |-> lim[c].tokens, last |-> lim[c].t0,
                           capacity |-> lim[c].capacity, refill |-> lim[c].refill]]
            /\ lim' = [lim EXCEPT ![c].pc = "expire"]
            /\ UNCHANGED buckets
       ELSE StoreFails(c, "write") /\ UNCHANGED rds
    /\ UNCHANGED ops
    /\ LimiterFrame

\* lines 77-78 and 87-88: expire answers and the decision is returned, or
\* expire raises
ExpireReply(c, ok) ==
    /\ lim[c].pc = "expire"
    /\ IF ok
       THEN /\ lim' = [lim EXCEPT ![c].pc = "returned", ![c].via = "store"]
            /\ UNCHANGED buckets
       ELSE StoreFails(c, "expire")
    /\ UNCHANGED <<ops, rds>>
    /\ LimiterFrame

LimiterTick ==
    /\ now < MaxLimiterTime
    /\ now' = now + 1
    /\ done' = [pc |-> "idle"]
    /\ UNCHANGED <<health, buckets, cache, budgets, req, rlSeen, rlPassed, cb, last, run, lastOk, policies>>
    /\ UNCHANGED unitVars

NextLimiter ==
    \/ LimiterTick
    \/ \E ok \in {TRUE} : InitRateLimiter(ok)
    \/ \E c \in Limiters, n \in BucketNames, cap \in 1..2, r \in {0, 1} : AllowAsync(c, n, cap, r)
    \/ \E c \in Limiters, ok \in BOOLEAN : ReadReply(c, ok)
    \/ \E c \in Limiters, ok \in BOOLEAN : ConfigReply(c, ok)
    \/ \E c \in Limiters, ok \in BOOLEAN : WriteReply(c, ok)
    \/ \E c \in Limiters, ok \in BOOLEAN : ExpireReply(c, ok)

SpecLimiter == Init /\ [][NextLimiter]_vars

(***************************************************************************)
(* Unit level: the cache on its own, driven by set and get on two keys.    *)
(***************************************************************************)
UnitCacheKeys == {k \in CacheKeys : k[3][2] = <<"u">> /\ k[2] = "GET"}
\* (content, headers, status) triples handed to set
Triples ==
    {<<Content("upstream", 1, <<>>), {}, 200>>,
     <<Content("upstream", 2, <<>>), {<<"content-type", "application/json">>}, 200>>,
     <<Content("upstream", 1, <<>>), {<<"content-type", "application/json">>}, 404>>}
Ttls == {0, TickStep}

CacheSet(key, triple, ttl) ==
    /\ ops < MaxOps
    /\ cache' = cache_set(cache, key, triple[1], triple[2], triple[3], ttl, now)
    /\ latest' = [latest EXCEPT ![key] =
                     [present |-> TRUE, exp |-> now + ttl, content |-> triple[1],
                      headers |-> triple[2], status |-> triple[3]]]
    /\ last' = Called("set", "", TRUE, "")
    /\ ops' = ops + 1
    /\ done' = [pc |-> "idle"]
    /\ UNCHANGED <<now, health, cb, run, got>>
    /\ UNCHANGED <<buckets, budgets, req, rlSeen, rlPassed, lastOk, policies, exceptCache>>

CacheGet(key) ==
    /\ ops < MaxOps
    /\ cache' = cache_get_state(cache, key, now)
    /\ got' = [at |-> now, key |-> key, value |-> cache_get(cache, key, now)]
    /\ last' = Called("get", "", cache_get(cache, key, now).present, "")
    /\ ops' = ops + 1
    /\ done' = [pc |-> "idle"]
    /\ UNCHANGED <<now, health, cb, run, latest>>
    /\ UNCHANGED <<buckets, budgets, req, rlSeen, rlPassed, lastOk, policies, exceptCache>>

NextCache ==
    \/ Tick(MaxTime)
    \/ \E k \in UnitCacheKeys, tr \in Triples, ttl \in Ttls : CacheSet(k, tr, ttl)
    \/ \E k \in UnitCacheKeys : CacheGet(k)

SpecCache == Init /\ [][NextCache]_vars

(***************************************************************************)
(* Unit level: the budget ledger on its own, with the month named in the   *)
(* call or left to the clock.                                              *)
(***************************************************************************)
MonthArgs == {NoMonth} \cup (0..MaxMonth)

\* the sum of the amounts charged to one ledger key, from the record of calls
RECURSIVE Total(_, _, _)
Total(ch, pair, amounts) ==
    IF amounts = {} THEN 0
    ELSE LET a == CHOOSE x \in amounts : TRUE
         IN a * ch[<<pair, a>>] + Total(ch, pair, amounts \ {a})

NumCharges(ch) ==
    LET RECURSIVE Count(_)
        Count(S) == IF S = {} THEN 0
                    ELSE LET c == CHOOSE x \in S : TRUE IN ch[c] + Count(S \ {c})
    IN Count(DOMAIN ch)

LedgerAddCost(key, usd, mk) ==
    /\ NumCharges(charges) < MaxCharges
    /\ budgets' = add_cost(budgets, key, usd, mk, now)
    /\ charges' = [charges EXCEPT ![<<<<key, MonthOf(mk, now)>>, usd>>] = @ + 1]
    /\ last' = Called("add_cost", key, TRUE, "")
    /\ done' = [pc |-> "idle"]
    /\ UNCHANGED <<now, health, cb, run, read>>
    /\ UNCHANGED <<buckets, cache, req, rlSeen, rlPassed, lastOk, policies, exceptLedger>>

LedgerGetCost(key, mk) ==
    /\ read' = [key |-> key, month |-> MonthOf(mk, now),
                value |-> get_cost(budgets, key, mk, now)]
    /\ last' = Called("get_cost", key, TRUE, "")
    /\ done' = [pc |-> "idle"]
    /\ UNCHANGED <<now, health, cb, run, charges>>
    /\ UNCHANGED <<gatewayVars, exceptLedger>>

NextLedger ==
    \/ Tick(MaxTime)
    \/ \E k \in BudgetNames, a \in Amounts, mk \in MonthArgs : LedgerAddCost(k, a, mk)
    \/ \E k \in BudgetNames, mk \in MonthArgs : LedgerGetCost(k, mk)

SpecLedger == Init /\ [][NextLedger]_vars

(***************************************************************************)
(* The token manager: NumCallers coroutines, each calling get_token once,  *)
(* and a token endpoint that answers each POST with a token or an error.   *)
(*   idle      not started                                                 *)
(*   waiting   suspended in the acquire of self.locks[provider_key]        *)
(*   fetching  holds the lock, suspended in await self.client.post(...)    *)
(*   returned  get_token returned result                                   *)
(*   raised    get_token raised the exception of _fetch_token              *)
(***************************************************************************)
TokenStrings == {"t1", "t2"}
\* expires_in of the token endpoint's answer; 0 stands for an answer that
\* makes _fetch_token raise (a non-2xx status, a body without access_token)
ExpiresIns == {0, TokenBuffer, DefaultExpiresIn, NoExpiresIn}

\* a call made now for key k starts with no cached token and before any
\* call for k has been answered by the token endpoint
FirstCalls(k) == ~tokens[k].present /\ posts[k] = <<>>

\* lines 53-63 with the lock held by c: return the cached token, leaving the
\* lock, or go into _fetch_token up to its await
UnderLock(c, k) ==
    IF has_valid_token(tokens, k, now)
    THEN /\ callers' = [callers EXCEPT ![c].pc = "returned", ![c].key = k,
                                       ![c].result = tokens[k].access_token,
                                       ![c].empty = IF callers[c].pc = "idle"
                                                    THEN FirstCalls(k) ELSE @,
                                       ![c].since = IF callers[c].pc = "idle"
                                                    THEN revoked[k] ELSE @]
         /\ locks' = [locks EXCEPT ![k].created = TRUE, ![k].holder = 0,
                                   ![k].waiters = IF callers[c].pc = "waiting"
                                                  THEN Tail(@) ELSE @]
    ELSE /\ callers' = [callers EXCEPT ![c].pc = "fetching", ![c].key = k,
                                       ![c].empty = IF callers[c].pc = "idle"
                                                    THEN FirstCalls(k) ELSE @,
                                       ![c].since = IF callers[c].pc = "idle"
                                                    THEN revoked[k] ELSE @,
                                       ![c].sent = revoked[k]]
         /\ locks' = [locks EXCEPT ![k].created = TRUE, ![k].holder = c,
                                   ![k].waiters = IF callers[c].pc = "waiting"
                                                  THEN Tail(@) ELSE @]

\* lines 50-53: get_token is called; the lock is taken at once when it is
\* free and nobody waits for it
GetToken(c, k) ==
    /\ callers[c].pc = "idle"
    /\ IF locks[k].holder = 0 /\ locks[k].waiters = <<>>
       THEN UnderLock(c, k)
       ELSE /\ callers' = [callers EXCEPT ![c].pc = "waiting", ![c].key = k,
                                          ![c].empty = FirstCalls(k),
                                          ![c].since = revoked[k]]
            /\ locks' = [locks EXCEPT ![k].waiters = Append(@, c)]
    /\ done' = [pc |-> "idle"]
    /\ UNCHANGED <<now, health, cb, last, run, tokens, posts, revoked>>
    /\ UNCHANGED <<gatewayVars, exceptOAuth>>

\* line 53: the first waiter of a released lock gets it
Acquire(c) ==
    /\ callers[c].pc = "waiting"
    /\ LET k == callers[c].key
       IN /\ locks[k].holder = 0
          /\ Head(locks[k].waiters) = c
          /\ UnderLock(c, k)
    /\ done' = [pc |-> "idle"]
    /\ UNCHANGED <<now, health, cb, last, run, tokens, posts, revoked>>
    /\ UNCHANGED <<gatewayVars, exceptOAuth>>

\* lines 89-105 and 66-67: the token endpoint answers; the token is stored
\* and returned, or the exception leaves get_token; the lock is released
FetchReply(c, access_token, given) ==
    /\ callers[c].pc = "fetching"
    /\ LET k == callers[c].key
           ok == given # 0
           expires_in == expires_in_or_default(given)
       IN /\ tokens' = IF ok
                       THEN [tokens EXCEPT ![k] = OAuth2Token(access_token, now + expires_in)]
                       ELSE tokens
          /\ callers' = [callers EXCEPT ![c].pc = IF ok THEN "returned" ELSE "raised",
                                        ![c].result = IF ok THEN access_token ELSE ""]
          /\ locks' = [locks EXCEPT ![k].holder = 0]
          /\ posts' = [posts EXCEPT ![k] =
                         Append(@, [by |-> c, ok |-> ok, at |-> now, sent |-> callers[c].sent,
                                    given |-> given, expires_in |-> expires_in])]
    /\ done' = [pc |-> "idle"]
    /\ UNCHANGED <<now, health, cb, last, run, revoked>>
    /\ UNCHANGED <<gatewayVars, exceptOAuth>>

NextOAuth ==
    \/ Tick(MaxTime)
    \/ \E c \in Callers, k \in ProviderKeys : GetToken(c, k)
    \/ \E c \in Callers : Acquire(c)
    \/ \E c \in Callers, s \in TokenStrings, e \in ExpiresIns : FetchReply(c, s, e)

SpecOAuth == Init /\ [][NextOAuth]_vars

\* lines 107-109: self.tokens.pop(provider_key, None), called between any
\* two steps of the get_token coroutines
Invalidate(k) ==
    /\ revoked[k] < MaxInvalidations
    /\ tokens' = [tokens EXCEPT ![k] = NoToken]
    /\ revoked' = [revoked EXCEPT ![k] = @ + 1]
    /\ done' = [pc |-> "idle"]
    /\ UNCHANGED <<now, health, cb, last, run, locks, callers, posts>>
    /\ UNCHANGED <<gatewayVars, exceptOAuth>>

\* the token manager with invalidate_token, at one instant
NextInvalidate ==
    \/ \E c \in Callers, k \in ProviderKeys : GetToken(c, k)
    \/ \E c \in Callers : Acquire(c)
    \/ \E c \in Callers, s \in TokenStrings, e \in ExpiresIns : FetchReply(c, s, e)
    \/ \E k \in ProviderKeys : Invalidate(k)

SpecInvalidate == Init /\ [][NextInvalidate]_vars

(***************************************************************************)
(* Unit level: path_allowed on paths put together from up to MaxAtoms      *)
(* pieces, under each of a few allow_paths lists.                          *)
(***************************************************************************)
PathAtoms ==
    {<<"/">>, <<".">>, <<"u">>, <<"%", "2", "E">>, <<"%", "2", "F">>,
     <<"%", "2", "5", "2", "E">>}
Literal(path) == [kind |-> "literal", path |-> path]
AllowLists ==
    {DefaultAllowPaths, {Literal(<<"/">>)}, {Literal(<<"/", "u">>)},
     {Literal(<<"/", "u", "/", "u">>)}}

\* a policy with other allow_paths is loaded
PathPolicy(a) ==
    /\ natoms = 0 /\ a # allow
    /\ allow' = a
    /\ verdict' = Verdict(a, pth)
    /\ done' = [pc |-> "idle"]
    /\ UNCHANGED <<now, health, cb, last, run, pth, natoms>>
    /\ UNCHANGED <<gatewayVars, exceptPath>>

\* path_allowed is called on the path that is one piece longer
PathAllowed(atom) ==
    /\ natoms < MaxAtoms
    /\ pth' = pth \o atom
    /\ natoms' = natoms + 1
    /\ verdict' = Verdict(allow, pth \o atom)
    /\ done' = [pc |-> "idle"]
    /\ UNCHANGED <<now, health, cb, last, run, allow>>
    /\ UNCHANGED <<gatewayVars, exceptPath>>

NextPath ==
    \/ \E a \in AllowLists : PathPolicy(a)
    \/ \E atom \in PathAtoms : PathAllowed(atom)

SpecPath == Init /\ [][NextPath]_vars

(***************************************************************************)
(* Properties.                                                             *)
(***************************************************************************)
Range(s) == {s[k] : k \in 1..Len(s)}
KeysOf(providers) == [k \in 1..Len(providers) |-> providers[k].key]
NamesOf(providers) == [k \in 1..Len(providers) |-> providers[k].name]

\* C1: a 2xx upstream response that Gateway.proxy returns comes from the
\* first candidate, in pick_best order, that answered 2xx: the candidates
\* before it were called, did not answer 2xx and were marked failed, none
\* after it was called, and X-ApiBridge-Provider names it.
C1_FirstSuccessServes ==
    (done.pc = "done" /\ done.status = 200 /\ ~done.hit) =>
        /\ done.providers[done.i].key \in done.answered
        /\ \A k \in 1..(done.i - 1) :
              /\ done.providers[k].key \in Range(done.calls)
              /\ done.providers[k].key \notin done.answered
              /\ done.providers[k].key \in Range(done.failed)
        /\ \A k \in (done.i + 1)..Len(done.providers) :
              done.providers[k].key \notin Range(done.calls)
        /\ <<"X-ApiBridge-Provider", done.providers[done.i].name>> \in done.headers

\* C2: the answer is 502 exactly when every candidate was given up, in
\* order, and none answered 2xx; the 502 body lists one diagnostic per
\* candidate in the order they were tried.
C2_BadGatewayIffNo2xx ==
    done.pc = "done" =>
        LET exhausted == /\ done.providers # <<>>
                         /\ done.failed = KeysOf(done.providers)
        IN /\ done.status = 502 <=> (exhausted /\ done.answered = {})
           /\ done.status = 502 =>
                 /\ done.content.errors = done.errors
                 /\ [k \in 1..Len(done.errors) |-> done.errors[k].name]
                       = NamesOf(done.providers)

\* C3: the admission checks come in the order 404 (unknown connector), 403
\* (path not admitted), 429 (bucket empty); a request rejected by one of them
\* has made no upstream call and leaves cache, registry and budget as they
\* were, and a 404 or 403 leaves the buckets as they were.
C3_AdmissionOrder ==
    [][/\ (done'.pc = "done" /\ done'.status \in {404, 403, 429}) =>
            LET known == done'.connector \in Connectors
                admitted == known /\ done'.path = <<"u">>
            IN /\ done'.calls = <<>>
               /\ cache' = cache /\ health' = health /\ budgets' = budgets
               /\ done'.status \in {404, 403} => buckets' = buckets
               /\ done'.status = 404 <=> ~known
               /\ done'.status = 403 <=> (known /\ ~admitted)
               /\ done'.status = 429 =>
                     /\ buckets[rl_name(done'.connector)].present
                     /\ buckets[rl_name(done'.connector)].tokens = 0
       /\ \A r \in Slots :
            (req[r].pc = "idle" /\ req'[r].pc = "body") =>
                /\ req'[r].connector \in Connectors
                /\ req'[r].path = <<"u">>
      ]_vars

\* a request rejected with 429 while the cache and the registry hold entries
C3_Witness ==
    /\ done.pc = "done" /\ done.status = 429
    /\ \E k \in CacheKeys : cache[k].present
    /\ health["w:A"].present

\* C4: with capacity c and no refill, of the n calls of the rate-limit step
\* exactly min(n, c) pass, and each of the others is answered 429.
C4_ExactlyCapacityPass ==
    /\ [](\A c \in Connectors : rlPassed[c] = Min(rlSeen[c], policies[c].rate.capacity))
    /\ [][\A c \in Connectors :
            rlSeen'[c] # rlSeen[c] =>
                (rlPassed'[c] = rlPassed[c] <=> (done'.pc = "done" /\ done'.status = 429))]_vars

\* more requests than the capacity have reached the step, one is rejected
\* while another is in flight
C4_Witness ==
    /\ rlSeen["w"] = RateCapacity + MaxRejected
    /\ rlPassed["w"] = RateCapacity
    /\ done.pc = "done" /\ done.status = 429
    /\ \E r \in Slots : req[r].pc = "upstream"

\* C5: a GET issued after an identical GET was answered 2xx from upstream,
\* within the TTL, gets the same body and status without an upstream call.
C5_RepeatServedFromCache ==
    (done.pc = "done" /\ done.expect.present) =>
        /\ done.hit
        /\ done.calls = <<>>
        /\ done.status = done.expect.status
        /\ done.content = done.expect.content

\* C6: a successful response carries X-ApiBridge-Cache, "hit" when it comes
\* from the cache and "miss" when it comes from an upstream.
C6_CacheHeader ==
    (done.pc = "done" /\ done.status = 200) =>
        <<"X-ApiBridge-Cache", IF done.hit THEN "hit" ELSE "miss">> \in done.headers

\* C7: from CLOSED with failure_count 0, the breaker is CLOSED and
\* should_attempt is true through failure_threshold - 1 consecutive
\* failures; right after the failure_threshold-th it is OPEN and
\* should_attempt is false.
C7_OpensAtThreshold ==
    /\ run < cb.failure_threshold =>
          cb.state = "CLOSED" /\ should_attempt(cb, now)
    /\ (run = cb.failure_threshold /\ now = cb.last_failure_time) =>
          cb.state = "OPEN" /\ ~should_attempt(cb, now)

\* the threshold-th failure in a row has just opened a breaker of the
\* largest threshold
C7_Witness ==
    /\ cb.failure_threshold = MaxThreshold
    /\ run = MaxThreshold
    /\ last.op = "record_failure" /\ last.from = "CLOSED"
    /\ cb.state = "OPEN"
    /\ now = cb.last_failure_time

\* C8: should_attempt on an OPEN breaker returns false and leaves it OPEN
\* while no more than recovery_timeout has passed since the last failure,
\* and returns true and moves it to HALF_OPEN afterwards; the passing of
\* time and further failures leave it OPEN.
C8_OpenUntilTimeout ==
    [][cb.state = "OPEN" =>
          /\ (last'.op = "should_attempt" /\ last'.seq # last.seq) =>
                IF now - cb.last_failure_time > cb.recovery_timeout
                THEN last'.ret /\ cb'.state = "HALF_OPEN"
                ELSE ~last'.ret /\ cb'.state = "OPEN"
          /\ cb'.state # "OPEN" =>
                \/ last'.op = "record_success" /\ last'.seq # last.seq
                \/ /\ last'.op = "should_attempt" /\ last'.seq # last.seq
                   /\ now - cb.last_failure_time > cb.recovery_timeout
      ]_vars

\* an OPEN breaker with a recovery timeout of one clock step was asked after
\* two steps and went to HALF_OPEN
C8_Witness ==
    /\ last.op = "should_attempt" /\ last.from = "OPEN" /\ last.ret
    /\ cb.state = "HALF_OPEN"
    /\ cb.recovery_timeout = TickStep
    /\ now - cb.last_failure_time > cb.recovery_timeout

\* C9: after mark_success the breaker of the key is CLOSED with
\* failure_count 0, whatever state it was in, and should_attempt_provider is
\* true for the key.
C9_SuccessCloses ==
    last.op = "mark_success" =>
        /\ health[last.key].present
        /\ health[last.key].cb.state = "CLOSED"
        /\ health[last.key].cb.failure_count = 0
        /\ should_attempt_provider(health, last.key, now)

\* mark_success has found the breaker HALF_OPEN
C9_Witness ==
    /\ last.op = "mark_success" /\ last.from = "HALF_OPEN"
    /\ health[last.key].cb.state = "CLOSED"

\* C10: a provider that is OPEN within its recovery timeout when the
\* candidates of a request are picked, while another provider is attemptable,
\* is not among the candidates and gets no upstream call of the request.
C10_OpenProviderSkipped ==
    /\ \A r \in Slots :
          \A k \in req[r].skipped :
              k \notin Range(KeysOf(req[r].providers)) /\ k \notin Range(req[r].calls)
    /\ done.pc = "done" =>
          \A k \in done.skipped :
              k \notin Range(KeysOf(done.providers)) /\ k \notin Range(done.calls)

\* provider A is OPEN and the request went straight to provider B
C10_Witness ==
    /\ done.pc = "done" /\ done.status = 200
    /\ done.skipped = {"w:A"}
    /\ done.calls = <<"w:B">>
    /\ health["w:A"].cb.failure_count = DefaultFailureThreshold

\* the health flag and the latency pick_best ranks p with in registry h
RankedHealthy(h, p) == ~h[p.key].present \/ h[p.key].healthy
RankedLatency(h, p) == IF h[p.key].present THEN h[p.key].avg ELSE 9999
RankedPenalty(h, p) ==
    IF ~h[p.key].present \/ h[p.key].cb.state = "CLOSED" THEN 0
    ELSE IF h[p.key].cb.state = "HALF_OPEN" THEN 50000 ELSE 100000

C12_AverageRounded ==
    (last.op = "mark_success" /\ before.present) =>
        LET s == 7 * before.avg + 3 * arg
            d == 10 * health[last.key].avg - s
        IN -5 <= d /\ d <= 5

\* C12, amended: after mark_success on an existing entry the average is
\* 0.7*old + 0.3*latency truncated to an integer, never rounded up; a sum
\* that is whole in exact arithmetic may come out one lower, as the sum is
\* formed in binary floating point.
C12_AverageTruncated ==
    (last.op = "mark_success" /\ before.present) =>
        LET s == 7 * before.avg + 3 * arg
            a == health[last.key].avg
        IN /\ 10 * a <= s
           /\ s % 10 # 0 => s < 10 * a + 10
           /\ s % 10 = 0 => s <= 10 * a + 10

\* an update whose exact value has a fraction above one half
C12_Witness ==
    /\ last.op = "mark_success" /\ before.present
    /\ (7 * before.avg + 3 * arg) % 10 > 5
    /\ health[last.key].avg = (7 * before.avg + 3 * arg) \div 10

\* C13: right after the first mark_success on a key, whatever mark_failure
\* calls came before, the average equals the latency of that call.
C13_FirstSampleSeeds ==
    (last.op = "mark_success" /\ samples = 1) => health[last.key].avg = arg

\* C14: allow called k times on a full bucket with no time elapsed returns
\* true for the first min(k, capacity) calls and false for every later one.
C14_BurstGrantsCapacity ==
    (now = 0 /\ last.op = "allow") =>
        /\ grants = Min(ops, bucket.capacity)
        /\ last.ret = (ops <= bucket.capacity)

\* more calls than the capacity of the largest bucket, the last one denied
C14_Witness ==
    /\ now = 0 /\ last.op = "allow" /\ ~last.ret
    /\ bucket.capacity = MaxBucket
    /\ ops > MaxBucket
    /\ grants = MaxBucket

\* C15: tokens stay within 0 .. capacity; allow after an idle gap D refills
\* to min(capacity, tokens + D*refill_per_sec), grants exactly when that is
\* at least 1 and takes one token then, and takes none when it denies.
C15_TokensBounded ==
    /\ 0 <= bucket.tokens /\ bucket.tokens <= bucket.capacity
    /\ last.op = "allow" =>
          LET D == bucket.last - was.last
              v == IF was.tokens + D * was.refill <= was.capacity
                   THEN was.tokens + D * was.refill ELSE was.capacity
          IN /\ last.ret = (v >= 1)
             /\ bucket.tokens = IF last.ret THEN v - 1 ELSE v

\* an empty bucket, refilled in part by an idle gap, grants again
C15_Witness ==
    /\ last.op = "allow" /\ last.ret
    /\ was.tokens = 0
    /\ bucket.last > was.last
    /\ was.tokens + (bucket.last - was.last) * was.refill < was.capacity

\* C16: get(k) returns the (body, headers, status) of the latest set(k, ...)
\* while now <= expires_at, and None afterwards, removing the entry; what
\* was set or has expired under another key makes no difference.
C16_GetReturnsLatestSet ==
    last.op = "get" =>
        LET l == latest[got.key]
        IN IF l.present /\ got.at <= l.exp
           THEN /\ got.value.present
                /\ got.value.content = l.content
                /\ got.value.headers = l.headers
                /\ got.value.status = l.status
           ELSE /\ ~got.value.present
                /\ ~cache[got.key].present

\* a get at the expiry time of its key returns the entry, with a different
\* entry stored under the other key
C16_Witness ==
    /\ last.op = "get" /\ got.value.present
    /\ got.at = latest[got.key].exp /\ got.at > 0
    /\ \E k \in UnitCacheKeys :
          /\ k # got.key /\ latest[k].present
          /\ latest[k].content # got.value.content

\* C17: the accumulated cost of a (connector, month) pair is the sum of the
\* add_cost amounts charged to that pair, whatever was charged to other
\* connectors and months, and a pair never charged reads 0.
C17_CostIsSumOfCharges ==
    /\ \A pair \in BudgetKeys :
          get_cost(budgets, pair[1], pair[2], now) = Total(charges, pair, Amounts)
    /\ last.op = "get_cost" =>
          read.value = Total(charges, <<read.key, read.month>>, Amounts)

\* a pair never charged is read while one pair holds two charges and a pair
\* of the same connector and one of the same month hold other totals
C17_Witness ==
    /\ last.op = "get_cost" /\ read.value = 0
    /\ \E pair \in BudgetKeys :
          /\ charges[<<pair, 1>>] = 1 /\ charges[<<pair, 2>>] = 1
          /\ \E other \in BudgetKeys :
                /\ other[1] = pair[1] /\ other[2] # pair[2]
                /\ budgets[other] \notin {0, budgets[pair]}
          /\ \E other \in BudgetKeys :
                /\ other[1] # pair[1] /\ other[2] = pair[2]
                /\ budgets[other] \notin {0, budgets[pair]}

\* the request that has just been answered out of a 2xx upstream response
AnsweredFromUpstream == done.pc = "done" /\ ~done.hit /\ done.status \in {200, 402}
\* the month's accumulated cost of a connector
Spent(connector) == get_cost(budgets, connector, NoMonth, now)

\* C18: when monthly_usd_max is defined and the month's cost of the
\* connector exceeds it after a successful upstream response, 'block' answers
\* 402 with the body {"error":"budget_exceeded"} and any other on_exceed
\* returns the upstream response with the header x-apibridge-budget:
\* exceeded:<amount>; while the cost does not exceed the maximum, neither
\* happens.
C18_BudgetEnforced ==
    AnsweredFromUpstream =>
        LET policy == policies[done.connector]
            spent == Spent(done.connector)
            flag == <<"x-apibridge-budget", <<"exceeded", spent>>>>
        IN IF policy.budget.monthly_usd_max # NoBudget
              /\ spent > policy.budget.monthly_usd_max
           THEN IF policy.budget.on_exceed = "block"
                THEN /\ done.status = 402
                     /\ done.content = Content("budget_exceeded", 0, <<>>)
                ELSE /\ done.status = 200
                     /\ done.content.kind = "upstream"
                     /\ flag \in done.headers
           ELSE /\ done.status = 200
                /\ \A h \in done.headers : h[1] # "x-apibridge-budget"

\* C19: add_cost is called once, with the connector name, for a request
\* answered out of a 2xx upstream response when cost_per_call_usd > 0, and
\* not at all for a request in which every provider failed or which was
\* rejected before the provider loop; no provider key is ever charged.
C19_ChargedOncePerSuccess ==
    /\ \A k \in BudgetKeys : k[1] \notin Connectors => budgets[k] = 0
    /\ done.pc = "done" =>
          IF AnsweredFromUpstream /\ policies[done.connector].cost_per_call_usd > 0
          THEN done.charged = <<done.connector>>
          ELSE done.charged = <<>>

\* the concurrent get_token calls for key k that started with no cached
\* token: all of them were called before the first answer of the endpoint
Batch(k) == {c \in Callers : callers[c].pc # "idle" /\ callers[c].key = k /\ callers[c].empty}
Finished(c) == callers[c].pc \in {"returned", "raised"}
\* the token-endpoint calls made by the callers in B for key k, answered or
\* in flight
EndpointCalls(k, B) ==
    Cardinality({i \in 1..Len(posts[k]) : posts[k][i].by \in B})
    + Cardinality({c \in B : callers[c].pc = "fetching"})
\* every answer of the token endpoint for k so far was a token that has not
\* come within TokenBuffer seconds of its expiry
AllAnswersValid(k) ==
    \A i \in 1..Len(posts[k]) :
        posts[k][i].ok /\ now < posts[k][i].at + posts[k][i].expires_in - TokenBuffer

C21_NormalizeInvariant == verdict.allowed = verdict.again

\* the path with every run of "/" collapsed to one "/", a trailing "/"
\* stripped and a leading "/" ensured
RECURSIVE collapse_runs(_)
collapse_runs(s) ==
    IF Len(s) < 2 THEN s
    ELSE IF s[1] = "/" /\ s[2] = "/" THEN collapse_runs(Tail(s))
    ELSE <<s[1]>> \o collapse_runs(Tail(s))
Canonical(s) ==
    LET n == rstrip_slash(collapse_runs(s))
    IN IF n # <<>> /\ n[1] = "/" THEN n ELSE <<"/">> \o n

\* C22: a path whose URL-decoded form contains ".." is not allowed, whatever
\* allow_paths holds, and the request for it is answered 403 by the
\* admission checks.
C22_TraversalDenied ==
    has_dotdot(unquote(pth)) =>
        /\ ~verdict.allowed
        /\ (pth # <<>> /\ pth[1] = "/") => verdict.admission = 403

\* an encoded ".." in a request path under the default allow_paths
C22_Witness ==
    /\ allow = DefaultAllowPaths
    /\ ~has_dotdot(pth) /\ has_dotdot(unquote(pth))
    /\ pth[1] = "/" /\ verdict.admission = 403

\* C23: a path that differs from an allowed path only by repeated or
\* trailing slashes or a missing leading slash is allowed, and the empty path
\* is matched as "/".
C23_SlashRunsCollapsed ==
    /\ \A pattern \in allow :
          pattern.kind = "literal" /\ Canonical(pth) = pattern.path => verdict.allowed
    /\ pth = <<>> => verdict.allowed = (\E pattern \in allow : fullmatch(pattern, <<"/">>))

\* the number of upstream calls a request has sent to provider key k
CallsTo(q, k) == Cardinality({n \in 1..Len(q.calls) : q.calls[n] = k})
\* the request of slot r after a step: its record, or the outcome shown in
\* done when the step has ended it
After(r) == IF req'[r].pc = "idle" THEN done' ELSE req'[r]

\* C24: with retries = r a request makes at most r + 1 upstream attempts on
\* one candidate; after a status >= 500 or an exception the same provider is
\* tried again exactly while attempt < r, after another non-2xx status never;
\* mark_failure is called for the provider once, at the attempt where it is
\* given up and not at an attempt that is retried, and the next candidate is
\* tried then (502 after the last).
C24_RetryThenGiveUp ==
    [][\A r \in Slots :
          (req[r].pc = "upstream" /\ req'[r] # req[r]) =>
             LET q == req[r]
                 q2 == After(r)
                 k == q.providers[q.i].key
                 retries == policies[q.connector].retries
                 retried == /\ q2.pc = "upstream" /\ q2.i = q.i
                            /\ q2.attempt = q.attempt + 1
                            /\ q2.calls = Append(q.calls, k)
                 served == q2.pc = "done" /\ q2.status = 200
                 \* the registry before mark_failure: as it was, or after the
                 \* mark_success of a 2xx answer whose processing raised
                 Marked == IF q2.heard = "2xx_raise"
                           THEN {mark_success(health, k, l) : l \in Latencies}
                           ELSE {health}
             IN /\ q.attempt <= retries
                /\ CallsTo(q2, k) <= retries + 1
                /\ q2.heard \in {"5xx", "timeout", "2xx_raise"} =>
                      (retried <=> q.attempt < retries)
                /\ q2.heard = "4xx" => ~retried
                /\ q2.heard = "2xx" <=> served
                /\ retried =>
                      /\ q2.failed = q.failed
                      /\ \E h0 \in Marked : health' = h0
                /\ (~retried /\ ~served) =>
                      /\ q2.failed = Append(q.failed, k)
                      /\ \E h0 \in Marked : health' = mark_failure(h0, k, now)
                      /\ IF q.i < Len(q.providers)
                         THEN /\ q2.pc = "upstream" /\ q2.i = q.i + 1 /\ q2.attempt = 0
                              /\ q2.calls = Append(q.calls, q.providers[q.i + 1].key)
                         ELSE q2.pc = "done" /\ q2.status = 502
                /\ \A j \in 1..Len(q2.failed) : \A i \in 1..Len(q2.failed) :
                      q2.failed[i] = q2.failed[j] => i = j
      ]_vars

\* with retries 2 a request has called provider A three times, given it up
\* once, and been answered by provider B at its second attempt
C24_Witness ==
    /\ done.pc = "done" /\ done.status = 200
    /\ policies[done.connector].retries = MaxRetries
    /\ done.calls = <<ProviderA.key, ProviderA.key, ProviderA.key, ProviderB.key, ProviderB.key>>
    /\ done.failed = <<ProviderA.key>>

\* C25: a failed token refresh for a candidate counts as a failure of that
\* provider only: the provider is marked failed, the next candidate is tried,
\* and the request ends in 502 only when every candidate has failed.
C25_RefreshFailureIsProviderFailure ==
    (done.pc = "done" /\ done.denied # <<>>) =>
        /\ Range(done.denied) \subseteq Range(done.failed)
        /\ done.status \in {200, 502}
        /\ done.status = 502 <=> Len(done.failed) = Len(done.providers)

\* two requests with the same connector, method, path and raw query
SameRequest(q1, q2) ==
    /\ q1.connector = q2.connector /\ q1.method = q2.method
    /\ q1.path = q2.path /\ q1.query = q2.query

\* C26: two identical GET requests compute the same cache key, whichever
\* provider served the first and whatever health change was recorded between
\* them.
C26_SameCacheKey ==
    \A q1, q2 \in {req[r] : r \in Slots} \cup {done} :
        (/\ q1.pc # "idle" /\ q2.pc # "idle"
         /\ q1.ck # NoKey /\ q2.ck # NoKey
         /\ SameRequest(q1, q2)) => q1.ck = q2.ck

\* C27: a request with a method other than GET, or to a connector with
\* cache TTL 0, computes no cache key, is never answered from the cache and
\* leaves the cache as it is in every step it takes.
C27_CacheOnlyForGetWithTtl ==
    [][\A r \in Slots :
          req'[r] # req[r] =>
             LET q == After(r)
             IN (q.method # "GET" \/ policies[q.connector].cache_ttl = 0) =>
                   /\ cache' = cache
                   /\ q.ck = NoKey
                   /\ ~q.hit
      ]_vars

\* a POST has been answered by an upstream while the cache holds the answer
\* of a GET for the same path and query
C27_Witness ==
    /\ done.pc = "done" /\ done.method = "POST" /\ done.status = 200
    /\ done.calls # <<>>
    /\ \E k \in CacheKeys :
          /\ cache[k].present /\ now <= cache[k].exp
          /\ k[1] = done.connector /\ k[3][2] = done.path /\ k[4] = done.query
          /\ k[3][1] = done.providers[1].base_url

\* C28: pick_best returns the providers whose should_attempt is true, or the
\* whole list when there is none; a provider without a health entry is kept;
\* the result of a non-empty list is not empty and holds each returned
\* provider exactly once.
C28_PickBestFilter ==
    [][last'.op = "pick_best" /\ last' # last =>
          LET ps == asked'
              kept == {ps[i] : i \in {j \in 1..Len(ps) :
                          should_attempt_provider(health, ps[j].key, now)}}
              expected == IF kept = {} THEN Range(ps) ELSE kept
          IN /\ Range(ranked') = expected
             /\ \A p \in Range(ps) : ~health[p.key].present => p \in Range(ranked')
             /\ ps # <<>> => ranked' # <<>>
             /\ \A p \in Range(ranked') :
                   Cardinality({i \in 1..Len(ranked') : ranked'[i] = p}) = 1
      ]_vars

\* both breakers are OPEN inside the recovery timeout and pick_best has
\* returned both providers
C28_Witness ==
    /\ last.op = "pick_best"
    /\ Len(asked) = 2 /\ Len(ranked) = 2
    /\ \A k \in ProviderKeys :
          /\ health[k].present /\ health[k].cb.state = "OPEN"
          /\ ~should_attempt_provider(health, k, now)

\* C29: record_failure on a HALF_OPEN breaker leaves it OPEN with
\* last_failure_time at that call; the next should_attempt, whatever time
\* has passed in between, returns true exactly if more than recovery_timeout
\* has passed since that failure, and otherwise leaves the breaker OPEN;
\* the passing of time leaves the breaker as the failure left it.
C29_HalfOpenFailureReopens ==
    [][/\ (cb.state = "HALF_OPEN" /\ last'.op = "record_failure" /\ last'.seq # last.seq) =>
             /\ cb'.state = "OPEN"
             /\ cb'.last_failure_time = now
             /\ ~should_attempt(cb', now)
       /\ (last.op = "record_failure" /\ last.from = "HALF_OPEN") =>
             /\ last' = last => cb' = cb
             /\ (last'.op = "should_attempt" /\ last'.seq # last.seq) =>
                   /\ last'.ret = (now - cb.last_failure_time > cb.recovery_timeout)
                   /\ ~last'.ret => cb' = cb /\ cb.state = "OPEN"
      ]_vars

\* the test request of a HALF_OPEN breaker has failed after the clock moved,
\* and the breaker is OPEN again and refuses
C29_Witness ==
    /\ last.op = "record_failure" /\ last.from = "HALF_OPEN"
    /\ cb.state = "OPEN"
    /\ cb.last_failure_time = now /\ now > 0
    /\ ~should_attempt(cb, now)

\* C30: while a breaker is HALF_OPEN, that is after should_attempt has
\* returned true on the OPEN to HALF_OPEN transition and before
\* record_success or record_failure has been called, should_attempt admits
\* no further attempt.
C30_OneTestRequest ==
    [][(cb.state = "HALF_OPEN" /\ last'.op = "should_attempt" /\ last'.seq # last.seq) =>
          ~last'.ret
      ]_vars

\* C31: a get_token call that has the lock returns the cached token, with no
\* call of the token endpoint, exactly if a token is cached for its key with
\* now < expires_at - 60, and goes to the token endpoint otherwise; a
\* successful answer is cached with expires_at = now + expires_in, with
\* 3600 for an answer without expires_in.
C31_CachedIffValid ==
    [][\A c \in Callers :
          LET k == callers'[c].key
          IN /\ (callers[c].pc \in {"idle", "waiting"} /\ callers'[c].pc \in {"returned", "fetching"}) =>
                   IF has_valid_token(tokens, k, now)
                   THEN /\ callers'[c].pc = "returned"
                        /\ callers'[c].result = tokens[k].access_token
                        /\ posts' = posts /\ tokens' = tokens
                   ELSE callers'[c].pc = "fetching"
             /\ (callers[c].pc = "fetching" /\ callers'[c].pc = "returned") =>
                   LET answer == posts'[k][Len(posts'[k])]
                   IN /\ Len(posts'[k]) = Len(posts[k]) + 1
                      /\ answer.by = c
                      /\ tokens'[k].present
                      /\ tokens'[k].access_token = callers'[c].result
                      /\ tokens'[k].expires_at =
                            now + (IF answer.given = NoExpiresIn THEN 3600 ELSE answer.given)
      ]_vars

\* a token fetched without expires_in is cached for 3600 s and a second
\* caller has got it from the cache at a later time
C31_Witness ==
    \E k \in ProviderKeys, c \in Callers :
        /\ Len(posts[k]) = 1 /\ posts[k][1].given = NoExpiresIn /\ posts[k][1].by # c
        /\ tokens[k].present /\ tokens[k].expires_at = posts[k][1].at + 3600
        /\ callers[c].pc = "returned" /\ callers[c].key = k /\ ~callers[c].empty
        /\ callers[c].result = tokens[k].access_token
        /\ now > posts[k][1].at

\* the answer of the token endpoint that put the cached token of key k
LastToken(k) ==
    LET i == CHOOSE j \in 1..Len(posts[k]) :
                 posts[k][j].ok /\ \A m \in (j + 1)..Len(posts[k]) : ~posts[k][m].ok
    IN posts[k][i]

\* C32: invalidate_token leaves no token for the key, and a get_token call
\* made after it that returns the cached token returns one whose request to
\* the token endpoint was sent after the invalidation.
C32_InvalidateForcesRefresh ==
    [][/\ \A k \in ProviderKeys : revoked'[k] # revoked[k] => ~tokens'[k].present
       /\ \A c \in Callers :
             (callers[c].pc \in {"idle", "waiting"} /\ callers'[c].pc = "returned") =>
                 LastToken(callers'[c].key).sent >= callers'[c].since
      ]_vars

\* C33: no allow_async call ends in an exception; when a call of the store
\* fails at any step, the call returns in that step what the in-memory
\* bucket of its name decides, and that bucket is updated as by allow.
C33_FallbackNeverRaises ==
    [][\A c \in Limiters :
          /\ lim'[c].pc # "raised"
          /\ (lim[c].pc \in {"read", "config", "write", "expire"} /\ lim'[c].pc = "returned"
                 /\ lim'[c].via = "memory") =>
                LET b == BucketOf(buckets, lim[c].name, lim[c].capacity, lim[c].refill, now)
                IN /\ lim'[c].failed = lim[c].pc
                   /\ lim'[c].ret = bucket_allow(b, now)
                   /\ buckets'[lim[c].name].present
                   /\ buckets'[lim[c].name].last = now
                   /\ buckets'[lim[c].name].tokens =
                         Refilled(b, now) - (IF lim'[c].ret THEN 1 ELSE 0)
      ]_vars

\* the store failed at its last step, after the write, and the in-memory
\* bucket, emptied by an earlier fallback, refused the call
C33_Witness ==
    \E c \in Limiters :
        /\ lim[c].pc = "returned" /\ lim[c].via = "memory" /\ lim[c].failed = "expire"
        /\ ~lim[c].ret
        /\ rds.hash[lim[c].name].tokens # NoField

\* C34: the breaker is CLOSED exactly if failure_count is below
\* failure_threshold, so OPEN and HALF_OPEN have failure_count at or above
\* it, and a step that makes it HALF_OPEN starts with it OPEN.
C34_StateMatchesCount ==
    /\ [](/\ cb.state \in {"CLOSED", "OPEN", "HALF_OPEN"}
          /\ cb.state = "CLOSED" <=> cb.failure_count < cb.failure_threshold)
    /\ [][(cb'.state = "HALF_OPEN" /\ cb.state # "HALF_OPEN") => cb.state = "OPEN"]_vars

\* a breaker that counted further failures while OPEN has gone HALF_OPEN
C34_Witness ==
    /\ cb.state = "HALF_OPEN"
    /\ cb.failure_threshold = 2
    /\ cb.failure_count > cb.failure_threshold

\* C35: a registry entry with healthy = true has its breaker CLOSED with
\* failure_count 0; an entry whose breaker is OPEN or HALF_OPEN is unhealthy,
\* so a circuit penalty is only ever added to the key of an unhealthy
\* provider.
C35_HealthyMeansClosed ==
    \A k \in ProviderKeys :
        health[k].present =>
            /\ health[k].healthy =>
                  health[k].cb.state = "CLOSED" /\ health[k].cb.failure_count = 0
            /\ health[k].cb.state \in {"OPEN", "HALF_OPEN"} => ~health[k].healthy
            /\ \A p \in {ProviderA, ProviderB} :
                  (p.key = k /\ health[k].healthy) =>
                      SortKey(health, p) = <<0, health[k].avg - p.weight * 10>>

\* one provider has come back through HALF_OPEN and is healthy while the
\* breaker of the other is OPEN
C35_Witness ==
    /\ last.op = "mark_success" /\ last.from = "HALF_OPEN"
    /\ health[last.key].present /\ health[last.key].healthy
    /\ \E k \in ProviderKeys \ {last.key} :
          health[k].present /\ health[k].cb.state = "OPEN" /\ ~health[k].healthy

\* C36: the pick_best of a request creates no registry entry and leaves the
\* healthy flag, the average and the breaker of every provider as they are,
\* but for the state of a breaker that is OPEN with its recovery timeout
\* over, which becomes HALF_OPEN, also when the request is then answered
\* from the cache with no upstream call.
C36_PickBestFrame ==
    [][(req[1].pc = "body" /\ req'[1] # req[1]) =>
          \A k \in ProviderKeys :
              LET due == /\ health[k].present /\ health[k].cb.state = "OPEN"
                         /\ now - health[k].cb.last_failure_time > health[k].cb.recovery_timeout
              IN /\ health'[k].present = health[k].present
                 /\ health'[k].healthy = health[k].healthy
                 /\ health'[k].avg = health[k].avg
                 /\ health'[k].cb =
                       [health[k].cb EXCEPT !.state = IF due THEN "HALF_OPEN" ELSE @]
      ]_vars

\* a request was answered from the cache, with no upstream call, by the
\* step that moved the breaker of provider A from OPEN to HALF_OPEN
C36_Witness ==
    /\ done.pc = "done" /\ done.hit /\ done.calls = <<>>
    /\ health["w:A"].cb.state = "HALF_OPEN"
    /\ health["w:A"].cb.failure_count = DefaultFailureThreshold + 1
    /\ health["w:A"].cb.last_failure_time = 0
    /\ rlPassed["w"] = ProbeCapacity
    /\ now = MaxTime /\ cache[done.ck].present /\ cache[done.ck].exp = MaxTime

\* C37: a breaker that is OPEN, with its upstream answering 2xx again and
\* requests arriving for ever, is eventually CLOSED again.
C37_OpenEventuallyCloses ==
    (health["w:A"].present /\ health["w:A"].cb.state = "OPEN")
        ~> (health["w:A"].cb.state = "CLOSED")

\* C38: every invocation of Gateway.proxy ends in one outcome after at most
\* |candidates| * (retries + 1) upstream calls; within one invocation
\* mark_success is called at most once, and mark_failure at most once per
\* candidate.
C38_OneOutcomeOneMark ==
    [][\A r \in Slots :
          (req[r].pc = "upstream" /\ req'[r] # req[r]) =>
             LET q == req[r]
                 q2 == After(r)
                 retries == policies[q.connector].retries
             IN /\ q2.pc \in {"upstream", "done"}
                /\ q2.pc = "done" => q2.status \in {200, 402, 502}
                /\ Len(q2.calls) <= Len(q2.providers) * (retries + 1)
                \* the step calls mark_success: no earlier step of the
                \* invocation has
                /\ q2.heard \in {"2xx", "2xx_raise", "2xx_raise_late"} => q.answered = {}
                /\ \A j \in 1..Len(q2.failed) : \A i \in 1..Len(q2.failed) :
                      q2.failed[i] = q2.failed[j] => i = j
      ]_vars

\* C39: a request answered from the cache has taken one token of its
\* connector's bucket when it was admitted and takes none after; it makes no
\* upstream call, adds no cost to the ledger, and leaves the healthy flag,
\* the latency average and the failure count of every provider unchanged.
C39_CacheHitFrame ==
    [][\A r \in Slots :
          /\ (req[r].pc = "idle" /\ req'[r].pc = "body") =>
                LET c == req'[r].connector
                    rate == policies[c].rate
                    b == BucketOf(buckets, rl_name(c), rate.capacity, rate.refill_per_sec, now)
                IN /\ buckets'[rl_name(c)].present
                   /\ buckets'[rl_name(c)].tokens = Refilled(b, now) - 1
          /\ (req[r].pc = "body" /\ req'[r] # req[r] /\ done'.pc = "done" /\ done'.hit) =>
                /\ done'.calls = <<>>
                /\ done'.charged = <<>>
                /\ done'.answered = {} /\ done'.failed = <<>>
                /\ budgets' = budgets
                /\ buckets' = buckets
                /\ \A k \in ProviderKeys :
                      /\ health'[k].present = health[k].present
                      /\ health'[k].healthy = health[k].healthy
                      /\ health'[k].avg = health[k].avg
                      /\ health'[k].cb.failure_count = health[k].cb.failure_count
      ]_vars

\* a request was answered from the cache after provider A had answered the
\* request before it, whose cost was charged, and it took the last token of
\* the bucket
C39_Witness ==
    /\ done.pc = "done" /\ done.hit /\ done.status = 200
    /\ done.calls = <<>> /\ done.charged = <<>>
    /\ health["w:A"].present /\ health["w:A"].healthy
    /\ health["w:A"].avg # NoHealth.avg
    /\ get_cost(budgets, "w", NoMonth, now) = CostPerCall
    /\ buckets[rl_name("w")].tokens = 0
    /\ rlPassed["w"] = RateCapacity

\* C40: an entry is written to the cache only by the step that returns a 2xx
\* upstream response to the caller, with that response's status and body: no
\* step that ends in 502 or 402, gives a provider up or retries it writes
\* one, and every entry of the cache has a 2xx status.
C40_OnlyReturned2xxStored ==
    /\ [](\A ck \in CacheKeys : cache[ck].present => cache[ck].status = 200)
    /\ [][\A ck \in CacheKeys :
             (cache'[ck].present /\ cache'[ck] # cache[ck]) =>
                /\ done'.pc = "done" /\ done'.status = 200 /\ ~done'.hit
                /\ done'.ck = ck
                /\ cache'[ck].status = done'.status
                /\ cache'[ck].content = done'.content
         ]_vars

====
